---------------------------- MODULE Spec2Model ----------------------------
(***************************************************************************)
(* A model of the meal planner's core (meal-planner-lib): the validated    *)
(* constraint records (ProductConstraint, NutrientConstraint), the         *)
(* products they refer to, and the ConstraintsSolver that compiles a day   *)
(* plan into a mixed-integer problem, solves it and reads the solution     *)
(* back.                                                                   *)
(*                                                                         *)
(* Conventions:                                                            *)
(*   Option<T>   None is <<>>, Some(x) is <<x>>.                           *)
(*   f32         a record [nan, v]: NaN, or the number v.  Comparisons     *)
(*               follow IEEE 754: every comparison with NaN is false.      *)
(*   HashMap     a function whose DOMAIN is the key set.                   *)
(*   nutrient amounts are per 100 g, as in the source; where the source    *)
(*   multiplies by 0.01 the model keeps the amount and multiplies the      *)
(*   other side of the (in)equality by 100, so that all arithmetic is on   *)
(*   integers.                                                             *)
(***************************************************************************)
EXTENDS Integers, Sequences, FiniteSets, TLC

VARIABLES
    pc,        \* the ProductConstraint record the caller holds (Option)
    nc,        \* the NutrientConstraint record the caller holds (Option)
    ret,       \* the last constructor / update call and what it returned
    solver,    \* the ConstraintsSolver instance
    result,    \* what the last solve_day call returned
    history,   \* the day constraints passed to solve_day so far, in call order
    me,        \* the MacroElements record the caller holds (Option)
    db,        \* the product database: its implementation and stored products
    worker     \* the DbWorkerHandle's worker: handlers, messages, promises

vars == <<pc, nc, ret, solver, result, history, me, db, worker>>

---------------------------------------------------------------------------
(* Option and f32 *)

None == <<>>

Some(x) == <<x>>

IsSome(o) == o # <<>>

Unwrap(o) == o[1]

UnwrapOr(o, d) == IF o = <<>> THEN d ELSE o[1]

NaN == [nan |-> TRUE, v |-> 0]

F(x) == [nan |-> FALSE, v |-> x]

\* a < b on f32
FLt(a, b) == ~a.nan /\ ~b.nan /\ a.v < b.v

\* a > b on f32
FGt(a, b) == ~a.nan /\ ~b.nan /\ a.v > b.v

\* a <= b on f32
FLe(a, b) == ~a.nan /\ ~b.nan /\ a.v <= b.v

\* a + b on f32: NaN if either is NaN
FAdd(a, b) == IF a.nan \/ b.nan THEN NaN ELSE F(a.v + b.v)

\* a * b on f32: NaN if either is NaN
FMul(a, b) == IF a.nan \/ b.nan THEN NaN ELSE F(a.v * b.v)

---------------------------------------------------------------------------
(* Bounds of the model *)

\* u16 product bounds offered to ProductConstraint::new are 0..MaxBound
MaxBound == 2

\* f32 nutrient bounds offered to NutrientConstraint::new are -1..MaxNutrientBound and NaN
MaxNutrientBound == 2

\* solve_day is called at most MaxCalls times on one solver instance
MaxCalls == 2

\* f32 amounts offered to MacroElements::new and set are 0..MaxMacro and NaN
MaxMacro == 1

---------------------------------------------------------------------------
(* Products *)

U16_MAX == 65535

AllowedUnitsType == {"Gram", "Piece", "Cup", "Box"}

MacroElementsType == {"Fat", "SaturatedFat", "Carbs", "Sugar", "Protein", "Calories"}

MicroNutrientsType == {"Fiber", "Alcohol"}

NutrientType == MacroElementsType \cup MicroNutrientsType

UnitData(amount, divider) == [amount |-> amount, divider |-> divider]

DEFAULT_ALLOWED_UNITS == <<"Gram", UnitData(1, 1)>>

\* HashMap::insert: the entry for key k becomes v, whether or not k was present
MapInsert(m, k, v) == [x \in (DOMAIN m) \cup {k} |-> IF x = k THEN v ELSE m[x]]

EmptyMap == [x \in {} |-> 0]

\* Product::new inserting the default unit only into an empty table
Product_new_DefaultIfEmpty(name, brand, macro_elements, micro_nutrients, allowed_units) ==
    [name |-> name,
     brand |-> brand,
     macro_elements |-> macro_elements,
     micro_nutrients |-> micro_nutrients,
     allowed_units |-> IF DOMAIN allowed_units = {}
                       THEN MapInsert(allowed_units, "Gram", [amount |-> 1, divider |-> 1])
                       ELSE allowed_units]

\* Product::new: the default unit is inserted into whatever table was passed
Product_new(name, brand, macro_elements, micro_nutrients, allowed_units) ==
    [name |-> name,
     brand |-> brand,
     macro_elements |-> macro_elements,
     micro_nutrients |-> micro_nutrients,
     allowed_units |-> MapInsert(allowed_units, DEFAULT_ALLOWED_UNITS[1], DEFAULT_ALLOWED_UNITS[2])]

Product_id(p) ==
    IF IsSome(p.brand) /\ Unwrap(p.brand) # "" THEN <<p.name, Unwrap(p.brand)>> ELSE <<p.name>>

get_nutrient_amount(p, nutrient) ==
    IF nutrient \in MacroElementsType
    THEN Some(p.macro_elements[nutrient])
    ELSE p.micro_nutrients[nutrient]

\* recompute_calories: Calories becomes fat * 9 + carbs * 4 + protein * 4
recompute_calories(self) ==
    [self EXCEPT !.Calories =
        FAdd(FAdd(FMul(self.Fat, F(9)), FMul(self.Carbs, F(4))), FMul(self.Protein, F(4)))]

\* MacroElements::new: the five given amounts, Calories 0.0, then recompute_calories
MacroElements_new(fat, saturated_fat, carbs, sugar, protein) ==
    recompute_calories([Fat |-> fat, SaturatedFat |-> saturated_fat, Carbs |-> carbs,
                        Sugar |-> sugar, Protein |-> protein, Calories |-> F(0)])

\* MacroElements::set storing the value without recomputing Calories
MacroElements_set_NoRecompute(self, key, value) ==
    IF key = "Calories"
    THEN [elements |-> self, value |-> "Err"]
    ELSE [elements |-> [self EXCEPT ![key] = value], value |-> "Ok"]

\* MacroElements::set: the record after the call and what the call returned;
\* the Err of the Calories key returns before anything is stored or recomputed
MacroElements_set(self, key, value) ==
    IF key = "Calories"
    THEN [elements |-> self, value |-> "Err"]
    ELSE [elements |-> recompute_calories([self EXCEPT ![key] = value]), value |-> "Ok"]

\* a product's macro elements with the given fat and protein, the others 0.0
Macros(fat, protein) == MacroElements_new(fat, F(0), F(0), F(0), protein)

Micros(fiber, alcohol) == [Fiber |-> fiber, Alcohol |-> alcohol]

---------------------------------------------------------------------------
(* ProductSwapper.  Its f32 arithmetic is kept exact: a value is NaN, an   *)
(* infinity, or the fraction n / d with d > 0; rounding to 24 bits is not  *)
(* modelled.                                                               *)

XNaN == [k |-> "nan", n |-> 0, d |-> 1]

\* +infinity (sign 1) or -infinity (sign -1)
XInf(sign) == [k |-> "inf", n |-> sign, d |-> 1]

XNum(n, d) == [k |-> "num", n |-> n, d |-> d]

\* an f32 of the model, or f32::from of a u16
XFromF(a) == IF a.nan THEN XNaN ELSE XNum(a.v, 1)

XSign(x) == IF x.n > 0 THEN 1 ELSE IF x.n < 0 THEN -1 ELSE 0

\* x * y on f32 (0 * infinity is NaN)
XMul(x, y) ==
    IF x.k = "nan" \/ y.k = "nan" THEN XNaN
    ELSE IF x.k = "inf" \/ y.k = "inf"
    THEN IF XSign(x) = 0 \/ XSign(y) = 0 THEN XNaN ELSE XInf(XSign(x) * XSign(y))
    ELSE XNum(x.n * y.n, x.d * y.d)

\* x / y on f32 (0 / 0 and infinity / infinity are NaN, x / 0 is an infinity;
\* a zero divisor is +0.0)
XDiv(x, y) ==
    IF x.k = "nan" \/ y.k = "nan" THEN XNaN
    ELSE IF x.k = "inf"
    THEN IF y.k = "inf" THEN XNaN ELSE XInf(IF XSign(y) < 0 THEN -XSign(x) ELSE XSign(x))
    ELSE IF y.k = "inf" THEN XNum(0, 1)
    ELSE IF y.n = 0 THEN (IF x.n = 0 THEN XNaN ELSE XInf(XSign(x)))
    ELSE IF y.n > 0 THEN XNum(x.n * y.d, x.d * y.n)
    ELSE XNum(-(x.n * y.d), x.d * (-y.n))

\* f32::floor
XFloor(x) == IF x.k = "num" THEN XNum(x.n \div x.d, 1) ELSE x

\* f32::ceil
XCeil(x) == IF x.k = "num" THEN XNum(-((-x.n) \div x.d), 1) ELSE x

\* `as u16` of an f32: truncates toward zero and saturates; NaN gives 0
XAsU16(x) ==
    IF x.k = "nan" THEN 0
    ELSE IF x.k = "inf" THEN (IF x.n > 0 THEN U16_MAX ELSE 0)
    ELSE IF x.n <= 0 THEN 0
    ELSE IF x.n \div x.d >= U16_MAX THEN U16_MAX
    ELSE x.n \div x.d

Fraction(numerator, denominator) == [numerator |-> numerator, denominator |-> denominator]

\* format!("Input product '{}' does not have nutrient '{:?}'", id, nutrient) and
\* the two other messages: the fixed text, the product id and the missing thing
SwapError(whose, id, what, missing) ==
    [kind |-> "Err", msg |-> <<whose, id, what, missing>>]

\* low_calculated_amount.numerator + 1 on u16: past 65535 the addition panics
\* in a build with overflow checks and wraps to 0 in one without
U16AddOne(x) ==
    IF x < U16_MAX THEN {[kind |-> "Value", value |-> x + 1]}
    ELSE {[kind |-> "Panic"], [kind |-> "Value", value |-> 0]}

\* get_amount_of_swapped_product without the check of the output's nutrient
\* (the output's amount taken as 0.0 when absent)
get_amount_of_swapped_product_NoOutputCheck(input, amount, output, nutrient_equivalent, allowed_units) ==
    IF get_nutrient_amount(input, nutrient_equivalent) = None
    THEN {SwapError("Input product", Product_id(input), "does not have nutrient", nutrient_equivalent)}
    ELSE IF allowed_units \notin DOMAIN input.allowed_units
    THEN {SwapError("Input product", Product_id(input), "does not have allowed unit", allowed_units)}
    ELSE
      LET nutrient_amount == Unwrap(get_nutrient_amount(input, nutrient_equivalent))
          nutrient_amount_output ==
              UnwrapOr(get_nutrient_amount(output, nutrient_equivalent), F(0))
          unit_size == input.allowed_units[allowed_units]
          calculated_amout ==
              XDiv(XMul(XFromF(amount), XFromF(nutrient_amount)), XFromF(nutrient_amount_output))
          low == XAsU16(XDiv(XMul(calculated_amout, XNum(unit_size.divider, 1)),
                             XFloor(XNum(unit_size.amount, 1))))
      IN {IF h.kind = "Panic" THEN [kind |-> "Panic"]
          ELSE [kind |-> "Ok",
                low |-> Fraction(low, unit_size.divider),
                high |-> Fraction(h.value, unit_size.divider)] : h \in U16AddOne(low)}

\* get_amount_of_swapped_product with the unit looked up in the output
\* product's table
get_amount_of_swapped_product_OutputUnit(input, amount, output, nutrient_equivalent, allowed_units) ==
    IF get_nutrient_amount(input, nutrient_equivalent) = None
    THEN {SwapError("Input product", Product_id(input), "does not have nutrient", nutrient_equivalent)}
    ELSE IF get_nutrient_amount(output, nutrient_equivalent) = None
    THEN {SwapError("Output product", Product_id(output), "does not have nutrient", nutrient_equivalent)}
    ELSE IF allowed_units \notin DOMAIN output.allowed_units
    THEN {SwapError("Output product", Product_id(output), "does not have allowed unit", allowed_units)}
    ELSE
      LET nutrient_amount == Unwrap(get_nutrient_amount(input, nutrient_equivalent))
          nutrient_amount_output == Unwrap(get_nutrient_amount(output, nutrient_equivalent))
          unit_size == output.allowed_units[allowed_units]
          calculated_amout ==
              XDiv(XMul(XFromF(amount), XFromF(nutrient_amount)), XFromF(nutrient_amount_output))
          low == XAsU16(XDiv(XMul(calculated_amout, XNum(unit_size.divider, 1)),
                             XFloor(XNum(unit_size.amount, 1))))
      IN {IF h.kind = "Panic" THEN [kind |-> "Panic"]
          ELSE [kind |-> "Ok",
                low |-> Fraction(low, unit_size.divider),
                high |-> Fraction(h.value, unit_size.divider)] : h \in U16AddOne(low)}

\* get_amount_of_swapped_product: the outcomes of a call.  The three checks
\* come in this order; the unit is looked up in the input product's table.
get_amount_of_swapped_product(input, amount, output, nutrient_equivalent, allowed_units) ==
    IF get_nutrient_amount(input, nutrient_equivalent) = None
    THEN {SwapError("Input product", Product_id(input), "does not have nutrient", nutrient_equivalent)}
    ELSE IF get_nutrient_amount(output, nutrient_equivalent) = None
    THEN {SwapError("Output product", Product_id(output), "does not have nutrient", nutrient_equivalent)}
    ELSE IF allowed_units \notin DOMAIN input.allowed_units
    THEN {SwapError("Input product", Product_id(input), "does not have allowed unit", allowed_units)}
    ELSE
      LET nutrient_amount == Unwrap(get_nutrient_amount(input, nutrient_equivalent))
          nutrient_amount_output == Unwrap(get_nutrient_amount(output, nutrient_equivalent))
          unit_size == input.allowed_units[allowed_units]
          calculated_amout ==
              XDiv(XMul(XFromF(amount), XFromF(nutrient_amount)), XFromF(nutrient_amount_output))
          low == XAsU16(XDiv(XMul(calculated_amout, XNum(unit_size.divider, 1)),
                             XFloor(XNum(unit_size.amount, 1))))
      IN {IF h.kind = "Panic" THEN [kind |-> "Panic"]
          ELSE [kind |-> "Ok",
                low |-> Fraction(low, unit_size.divider),
                high |-> Fraction(h.value, unit_size.divider)] : h \in U16AddOne(low)}

\* get_grams_of_swapped_product: the Gram bracket, its low fraction floored
\* and its high fraction ceiled; an Err (or a panic) of the inner call is passed on
get_grams_of_swapped_product(input, amount, output, nutrient_equivalent) ==
    {IF r.kind = "Ok"
     THEN [kind |-> "Ok",
           low |-> XAsU16(XFloor(XDiv(XNum(r.low.numerator, 1), XNum(r.low.denominator, 1)))),
           high |-> XAsU16(XCeil(XDiv(XNum(r.high.numerator, 1), XNum(r.high.denominator, 1))))]
     ELSE r :
        r \in get_amount_of_swapped_product(input, amount, output, nutrient_equivalent, "Gram")}

---------------------------------------------------------------------------
(* ProductConstraint *)

\* ProductConstraint::new without its allowed-unit check
ProductConstraint_new_NoUnitCheck(food, low_bound, up_bound, unit) ==
    IF IsSome(low_bound) /\ IsSome(up_bound) /\ Unwrap(low_bound) > Unwrap(up_bound)
    THEN None
    ELSE Some([food |-> food, low_bound |-> low_bound, up_bound |-> up_bound, unit |-> unit])

\* ProductConstraint::new rejecting equal bounds too (lb >= ub for lb > ub)
ProductConstraint_new_StrictBounds(food, low_bound, up_bound, unit) ==
    IF unit \notin DOMAIN food.allowed_units
    THEN None
    ELSE IF IsSome(low_bound) /\ IsSome(up_bound) /\ Unwrap(low_bound) >= Unwrap(up_bound)
    THEN None
    ELSE Some([food |-> food, low_bound |-> low_bound, up_bound |-> up_bound, unit |-> unit])

ProductConstraint_new(food, low_bound, up_bound, unit) ==
    IF unit \notin DOMAIN food.allowed_units
    THEN None
    ELSE IF IsSome(low_bound) /\ IsSome(up_bound) /\ Unwrap(low_bound) > Unwrap(up_bound)
    THEN None
    ELSE Some([food |-> food, low_bound |-> low_bound, up_bound |-> up_bound, unit |-> unit])

ProductConstraint_update(self, other) == other

---------------------------------------------------------------------------
(* NutrientConstraint *)

\* NutrientConstraint::new without the check of a negative max
NutrientConstraint_new_NoMaxCheck(element, min, max) ==
    IF IsSome(min) /\ FLt(Unwrap(min), F(0))
    THEN None
    ELSE IF IsSome(min) /\ IsSome(max) /\ FGt(Unwrap(min), Unwrap(max))
    THEN None
    ELSE Some([element |-> element, min |-> min, max |-> max])

NutrientConstraint_new(element, min, max) ==
    IF IsSome(min) /\ FLt(Unwrap(min), F(0))
    THEN None
    ELSE IF IsSome(max) /\ FLt(Unwrap(max), F(0))
    THEN None
    ELSE IF IsSome(min) /\ IsSome(max) /\ FGt(Unwrap(min), Unwrap(max))
    THEN None
    ELSE Some([element |-> element, min |-> min, max |-> max])

NutrientConstraint_update(self, other) == other

---------------------------------------------------------------------------
(* Inputs of the constructors *)

\* Option<u16> bounds
OptBounds == {None} \cup {Some(b) : b \in 0..MaxBound}

\* f32 values: NaN, a negative number, 0 and the positive numbers up to the bound
F32Values == {NaN} \cup {F(x) : x \in -1..MaxNutrientBound}

OptF32 == {None} \cup {Some(x) : x \in F32Values}

\* Products with different allowed-unit tables: none passed, one unit, two units
PlainProduct == Product_new("Plain", None, Macros(F(1), F(5)), Micros(None, None), EmptyMap)

MilkProduct ==
    Product_new("Milk", Some("Farm"), Macros(F(3), F(3)), Micros(None, None),
                MapInsert(EmptyMap, "Cup", UnitData(250, 1)))

MultiUnitProduct ==
    Product_new("MultiUnit", None, Macros(F(0), F(0)), Micros(Some(F(2)), None),
                MapInsert(MapInsert(EmptyMap, "Cup", UnitData(2, 1)), "Box", UnitData(5, 1)))

ConstraintProducts == {PlainProduct, MilkProduct, MultiUnitProduct}

\* Every ProductConstraint value a caller can hold: only new builds one
ProductConstraints ==
    {Unwrap(ProductConstraint_new(f, l, u, un)) :
        <<f, l, u, un>> \in {a \in ConstraintProducts \X OptBounds \X OptBounds \X AllowedUnitsType :
                                IsSome(ProductConstraint_new(a[1], a[2], a[3], a[4]))}}

\* Every NutrientConstraint value a caller can hold
NutrientConstraints ==
    {Unwrap(NutrientConstraint_new(e, mn, mx)) :
        <<e, mn, mx>> \in {a \in {"Protein", "Fiber"} \X OptF32 \X OptF32 :
                              IsSome(NutrientConstraint_new(a[1], a[2], a[3]))}}

---------------------------------------------------------------------------
(* The optimisation problem (microlp::Problem), as the solver fills it.      *)
(* Objective coefficients, constraint coefficients and right-hand sides are  *)
(* kept in hundredths (the f64 x is the integer 100 * x); variable bounds    *)
(* and values are plain numbers, and an upper bound of None is f64::INFINITY *)

Problem_new(direction) == [direction |-> direction, vars |-> <<>>, cons |-> <<>>]

\* Problem::add_var: a continuous variable; its handle is its index
add_var(problem, obj_coeff, min, max) ==
    [problem EXCEPT !.vars = Append(@, [obj |-> obj_coeff, min |-> min, max |-> max,
                                        integer |-> FALSE])]

\* Problem::add_integer_var
add_integer_var(problem, obj_coeff, min, max) ==
    [problem EXCEPT !.vars = Append(@, [obj |-> obj_coeff, min |-> min, max |-> max,
                                        integer |-> TRUE])]

\* Problem::add_constraint: terms is a sequence of <<variable, coefficient>>
add_constraint(problem, terms, op, rhs) ==
    [problem EXCEPT !.cons = Append(@, [terms |-> terms, op |-> op, rhs |-> rhs])]

\* f64::from of an f32 that is a number, times 100
Hundredths(x) == 100 * x.v

---------------------------------------------------------------------------
(* ConstraintsSolver: construction and compilation of a day constraint *)

ConstraintsSolver_new(min_or_max, nutrient_to_optimize) ==
    [problem |-> Problem_new(IF min_or_max = "Min" THEN "Minimize" ELSE "Maximize"),
     variables |-> [name |-> "root", inner |-> <<>>],
     nutrient_to_optimize |-> nutrient_to_optimize]

\* ProductEntry::get_all_product_variables: the leaves of an entry, in order
RECURSIVE get_all_product_variables(_)
get_all_product_variables(entry) ==
    LET RECURSIVE Flat(_, _)
        Flat(inner, i) ==
            IF i > Len(inner) THEN <<>>
            ELSE get_all_product_variables(inner[i]) \o Flat(inner, i + 1)
    IN IF entry.tag = "Variable" THEN <<entry>> ELSE Flat(entry.inner, 1)

\* the leaves of a slice of entries (products.iter().flat_map(..))
RECURSIVE AllProductVariables(_, _)
AllProductVariables(entries, i) ==
    IF i > Len(entries) THEN <<>>
    ELSE get_all_product_variables(entries[i]) \o AllProductVariables(entries, i + 1)

\* the default taken from i16::MAX instead of u16::MAX
GramsDefaultMax_I16 == Some(32767)

\* The grams variable's upper bound when the constraint has none
GramsDefaultMax == Some(U16_MAX)

\* add_product_constraints with the equality's coefficient without the divider
add_product_constraints_NoDivider(self, product, product_constraint) ==
    LET nutrient_amount == UnwrapOr(get_nutrient_amount(product, self.nutrient_to_optimize), F(0))
        p1 == add_var(self.problem, nutrient_amount.v,
                      UnwrapOr(product_constraint.low_bound, 0),
                      IF IsSome(product_constraint.up_bound)
                      THEN product_constraint.up_bound ELSE GramsDefaultMax)
        product_gram_variable == Len(p1.vars)
        p2 == add_integer_var(p1, 0, 0, Some(U16_MAX))
        unit_var == Len(p2.vars)
        unit_data == product.allowed_units[product_constraint.unit]
        p3 == add_constraint(p2,
                             <<<<unit_var, 100 * unit_data.amount>>,
                               <<product_gram_variable, -100>>>>,
                             "Eq", 0)
    IN [solver |-> [self EXCEPT !.problem = p3],
        variable |-> [tag |-> "Variable",
                      name |-> Product_id(product),
                      product |-> product,
                      unit |-> product_constraint.unit,
                      variable_gram |-> product_gram_variable,
                      variable_unit_divided |-> unit_var]]

\* add_product_constraints taking the bounds as counts of the requested unit
add_product_constraints_BoundsInUnits(self, product, product_constraint) ==
    LET nutrient_amount == UnwrapOr(get_nutrient_amount(product, self.nutrient_to_optimize), F(0))
        per_unit == product.allowed_units[product_constraint.unit].amount
                        * product.allowed_units[product_constraint.unit].divider
        p1 == add_var(self.problem, nutrient_amount.v,
                      UnwrapOr(product_constraint.low_bound, 0) * per_unit,
                      IF IsSome(product_constraint.up_bound)
                      THEN Some(Unwrap(product_constraint.up_bound) * per_unit)
                      ELSE GramsDefaultMax)
        product_gram_variable == Len(p1.vars)
        p2 == add_integer_var(p1, 0, 0, Some(U16_MAX))
        unit_var == Len(p2.vars)
        unit_data == product.allowed_units[product_constraint.unit]
        p3 == add_constraint(p2,
                             <<<<unit_var, 100 * (unit_data.divider * unit_data.amount)>>,
                               <<product_gram_variable, -100>>>>,
                             "Eq", 0)
    IN [solver |-> [self EXCEPT !.problem = p3],
        variable |-> [tag |-> "Variable",
                      name |-> Product_id(product),
                      product |-> product,
                      unit |-> product_constraint.unit,
                      variable_gram |-> product_gram_variable,
                      variable_unit_divided |-> unit_var]]

\* add_product_constraints giving the grams variable no objective coefficient
add_product_constraints_NoObjective(self, product, product_constraint) ==
    LET nutrient_amount == UnwrapOr(get_nutrient_amount(product, self.nutrient_to_optimize), F(0))
        p1 == add_var(self.problem, 0 * nutrient_amount.v,
                      UnwrapOr(product_constraint.low_bound, 0),
                      IF IsSome(product_constraint.up_bound)
                      THEN product_constraint.up_bound ELSE GramsDefaultMax)
        product_gram_variable == Len(p1.vars)
        p2 == add_integer_var(p1, 0, 0, Some(U16_MAX))
        unit_var == Len(p2.vars)
        unit_data == product.allowed_units[product_constraint.unit]
        p3 == add_constraint(p2,
                             <<<<unit_var, 100 * (unit_data.divider * unit_data.amount)>>,
                               <<product_gram_variable, -100>>>>,
                             "Eq", 0)
    IN [solver |-> [self EXCEPT !.problem = p3],
        variable |-> [tag |-> "Variable",
                      name |-> Product_id(product),
                      product |-> product,
                      unit |-> product_constraint.unit,
                      variable_gram |-> product_gram_variable,
                      variable_unit_divided |-> unit_var]]

\* add_product_constraints: the grams variable, the unit-count variable and
\* the equality unit_count * (divider * amount) - grams = 0.
\* Returns the solver and the ProductVariable.
add_product_constraints(self, product, product_constraint) ==
    LET nutrient_amount == UnwrapOr(get_nutrient_amount(product, self.nutrient_to_optimize), F(0))
        p1 == add_var(self.problem, nutrient_amount.v,
                      UnwrapOr(product_constraint.low_bound, 0),
                      IF IsSome(product_constraint.up_bound)
                      THEN product_constraint.up_bound ELSE GramsDefaultMax)
        product_gram_variable == Len(p1.vars)
        p2 == add_integer_var(p1, 0, 0, Some(U16_MAX))
        unit_var == Len(p2.vars)
        unit_data == product.allowed_units[product_constraint.unit]
        p3 == add_constraint(p2,
                             <<<<unit_var, 100 * (unit_data.divider * unit_data.amount)>>,
                               <<product_gram_variable, -100>>>>,
                             "Eq", 0)
    IN [solver |-> [self EXCEPT !.problem = p3],
        variable |-> [tag |-> "Variable",
                      name |-> Product_id(product),
                      product |-> product,
                      unit |-> product_constraint.unit,
                      variable_gram |-> product_gram_variable,
                      variable_unit_divided |-> unit_var]]

\* the terms of a nutrient constraint with an absent amount taken as 1.0 per 100 g
RECURSIVE ProductMacros_AbsentAsOne(_, _, _)
ProductMacros_AbsentAsOne(leaves, element, i) ==
    IF i > Len(leaves) THEN <<>>
    ELSE <<<<leaves[i].variable_gram,
             UnwrapOr(get_nutrient_amount(leaves[i].product, element), F(1)).v>>>>
         \o ProductMacros_AbsentAsOne(leaves, element, i + 1)

\* the (grams variable, nutrient per gram) terms of a nutrient constraint
RECURSIVE ProductMacros(_, _, _)
ProductMacros(leaves, element, i) ==
    IF i > Len(leaves) THEN <<>>
    ELSE <<<<leaves[i].variable_gram,
             UnwrapOr(get_nutrient_amount(leaves[i].product, element), F(0)).v>>>>
         \o ProductMacros(leaves, element, i + 1)

\* add_nutrient_constraints without the "<= max" row
add_nutrient_constraints_NoMax(self, nutrient_constr, products) ==
    LET product_macros == ProductMacros(AllProductVariables(products, 1), nutrient_constr.element, 1)
    IN [self EXCEPT !.problem =
            add_constraint(self.problem, product_macros, "Ge",
                           Hundredths(UnwrapOr(nutrient_constr.min, F(0))))]

\* add_nutrient_constraints without the ">= min" row
add_nutrient_constraints_NoMin(self, nutrient_constr, products) ==
    LET product_macros == ProductMacros(AllProductVariables(products, 1), nutrient_constr.element, 1)
    IN IF IsSome(nutrient_constr.max)
       THEN [self EXCEPT !.problem =
                add_constraint(self.problem, product_macros, "Le",
                               Hundredths(Unwrap(nutrient_constr.max)))]
       ELSE self

\* add_nutrient_constraints adding the ">= min" row only when min is present
add_nutrient_constraints_MinIfPresent(self, nutrient_constr, products) ==
    LET product_macros == ProductMacros(AllProductVariables(products, 1), nutrient_constr.element, 1)
        p1 == IF IsSome(nutrient_constr.min)
              THEN add_constraint(self.problem, product_macros, "Ge",
                                  Hundredths(Unwrap(nutrient_constr.min)))
              ELSE self.problem
        p2 == IF IsSome(nutrient_constr.max)
              THEN add_constraint(p1, product_macros, "Le", Hundredths(Unwrap(nutrient_constr.max)))
              ELSE p1
    IN [self EXCEPT !.problem = p2]

\* add_nutrient_constraints: a ">= min" row (min.unwrap_or(0.0)) always, and a
\* "<= max" row when max is present, over every leaf under products
add_nutrient_constraints(self, nutrient_constr, products) ==
    LET product_macros == ProductMacros(AllProductVariables(products, 1), nutrient_constr.element, 1)
        p1 == add_constraint(self.problem, product_macros, "Ge",
                             Hundredths(UnwrapOr(nutrient_constr.min, F(0))))
        p2 == IF IsSome(nutrient_constr.max)
              THEN add_constraint(p1, product_macros, "Le", Hundredths(Unwrap(nutrient_constr.max)))
              ELSE p1
    IN [self EXCEPT !.problem = p2]

\* the loop over a list of nutrient constraints
RECURSIVE AddNutrients(_, _, _, _)
AddNutrients(self, nutrients, products, i) ==
    IF i > Len(nutrients) THEN self
    ELSE AddNutrients(add_nutrient_constraints(self, nutrients[i], products), nutrients, products, i + 1)

\* the loop over a meal's product constraints, each new entry put first
RECURSIVE AddProducts_Prepending(_, _, _, _)
AddProducts_Prepending(self, products, entries, i) ==
    IF i > Len(products) THEN [solver |-> self, entries |-> entries]
    ELSE LET r == add_product_constraints(self, products[i].food, products[i])
         IN AddProducts_Prepending(r.solver, products, <<r.variable>> \o entries, i + 1)

\* the loop over a meal's product constraints
RECURSIVE AddProducts(_, _, _, _)
AddProducts(self, products, entries, i) ==
    IF i > Len(products) THEN [solver |-> self, entries |-> entries]
    ELSE LET r == add_product_constraints(self, products[i].food, products[i])
         IN AddProducts(r.solver, products, Append(entries, r.variable), i + 1)

\* add_meal_constraints with the nutrient constraints added before the products
add_meal_constraints_NutrientsFirst(self, meal, product_entries) ==
    LET r == AddProducts(AddNutrients(self, meal.nutrients, product_entries, 1),
                         meal.products, product_entries, 1)
    IN [solver |-> r.solver, entries |-> r.entries]

\* add_meal_constraints: first the products, then the meal's nutrient constraints
add_meal_constraints(self, meal, product_entries) ==
    LET r == AddProducts(self, meal.products, product_entries, 1)
    IN [solver |-> AddNutrients(r.solver, meal.nutrients, r.entries, 1), entries |-> r.entries]

\* the loop over the meals, in the order the HashMap iterator yields them
RECURSIVE AddMeals(_, _, _, _, _)
AddMeals(self, meals, order, product_entries, i) ==
    IF i > Len(order) THEN [solver |-> self, entries |-> product_entries]
    ELSE LET r == add_meal_constraints(self, meals[order[i]], <<>>)
             meal_container == [tag |-> "Subcontainer", name |-> order[i], inner |-> r.entries]
         IN AddMeals(r.solver, meals, order, Append(product_entries, meal_container), i + 1)

\* create_day_constraints: every meal, then the day's nutrient constraints
create_day_constraints(self, day_constraints, order, product_entries) ==
    LET r == AddMeals(self, day_constraints.meals, order, product_entries, 1)
    IN [solver |-> AddNutrients(r.solver, day_constraints.nutrients, r.entries, 1),
        entries |-> r.entries]

\* create_constraints starting every call from an empty problem and tree
create_constraints_Fresh(self, day_constraints, order) ==
    LET fresh == [self EXCEPT !.problem = Problem_new(self.problem.direction),
                              !.variables.inner = <<>>]
        r == create_day_constraints(fresh, day_constraints, order, <<>>)
    IN [r.solver EXCEPT !.variables.inner =
            Append(@, [tag |-> "Subcontainer", name |-> "Day1", inner |-> r.entries])]

\* create_constraints: compiles the day and pushes its container, named "Day1"
create_constraints(self, day_constraints, order) ==
    LET r == create_day_constraints(self, day_constraints, order, <<>>)
    IN [r.solver EXCEPT !.variables.inner =
            Append(@, [tag |-> "Subcontainer", name |-> "Day1", inner |-> r.entries])]

---------------------------------------------------------------------------
(* Problem::solve.  microlp is an exact branch-and-bound solver for mixed   *)
(* integer linear problems; the model computes what it returns: Infeasible  *)
(* when no assignment satisfies every bound and row, Unbounded when the     *)
(* objective has no finite optimum, and otherwise an optimal assignment.    *)
(* Variables that share no row are optimised separately (the optimum of a   *)
(* separable problem is the tuple of the optima of its parts).              *)

Range(seq) == {seq[i] : i \in 1..Len(seq)}

Max2(a, b) == IF a >= b THEN a ELSE b

Min2(a, b) == IF a <= b THEN a ELSE b

\* the least n with n * k >= x, for k > 0
CeilDiv(x, k) == IF x <= 0 THEN 0 ELSE ((x + k - 1) \div k)

VarsOf(con) == {t[1] : t \in Range(con.terms)}

\* the variables linked to those of S by a chain of rows
RECURSIVE Closure(_, _)
Closure(problem, S) ==
    LET T == S \cup UNION {VarsOf(c) : c \in {d \in Range(problem.cons) : VarsOf(d) \cap S # {}}}
    IN IF T = S THEN S ELSE Closure(problem, T)

Components(problem) == {Closure(problem, {i}) : i \in 1..Len(problem.vars)}

RowsOf(problem, K) == {c \in Range(problem.cons) : VarsOf(c) \cap K # {}}

\* a variable no row mentions
IsFree(problem, K) == RowsOf(problem, K) = {}

\* the row  unit_count * k - grams = 0  of an integer variable u
EqRowOf(problem, u) ==
    CHOOSE c \in Range(problem.cons) : c.op = "Eq" /\ Len(c.terms) = 2 /\ c.terms[1][1] = u

\* The values an integer variable u can take: within its own bounds, and with
\* grams = k * u within the bounds of the grams variable of its row
UnitCountDomain(problem, u) ==
    LET row == EqRowOf(problem, u)
        k == row.terms[1][2] \div 100
        g == problem.vars[row.terms[2][1]]
        uv == problem.vars[u]
    IN IF k = 0
       THEN IF g.min <= 0 THEN uv.min..Unwrap(uv.max) ELSE {}
       ELSE Max2(uv.min, CeilDiv(g.min, k))
            .. (IF IsSome(g.max) THEN Min2(Unwrap(uv.max), Unwrap(g.max) \div k)
                ELSE Unwrap(uv.max))

\* every function from the integer variables U to their domains
RECURSIVE CountAssignments(_, _)
CountAssignments(problem, U) ==
    IF U = {} THEN {<<>>}
    ELSE LET u == CHOOSE x \in U : TRUE
         IN {(u :> n) @@ a : n \in UnitCountDomain(problem, u),
                             a \in CountAssignments(problem, U \ {u})}

\* the values of all variables of K that the unit counts a determine
ValuesOf(problem, K, a) ==
    [i \in K |->
        IF problem.vars[i].integer THEN a[i]
        ELSE LET row == CHOOSE c \in Range(problem.cons) :
                            c.op = "Eq" /\ Len(c.terms) = 2 /\ c.terms[2][1] = i
             IN (row.terms[1][2] \div 100) * a[row.terms[1][1]]]

RECURSIVE SumTerms(_, _, _)
SumTerms(terms, v, i) ==
    IF i > Len(terms) THEN 0 ELSE terms[i][2] * v[terms[i][1]] + SumTerms(terms, v, i + 1)

RowHolds(con, v) ==
    LET lhs == SumTerms(con.terms, v, 1)
    IN CASE con.op = "Eq" -> lhs = con.rhs
         [] con.op = "Ge" -> lhs >= con.rhs
         [] con.op = "Le" -> lhs <= con.rhs

RECURSIVE SumObjective(_, _, _)
SumObjective(problem, v, K) ==
    IF K = {} THEN 0
    ELSE LET i == CHOOSE x \in K : TRUE
         IN problem.vars[i].obj * v[i] + SumObjective(problem, v, K \ {i})

\* the feasible assignments of a component whose variables rows tie together
FeasibleOf(problem, K) ==
    {v \in {ValuesOf(problem, K, a) :
                a \in CountAssignments(problem, {i \in K : problem.vars[i].integer})} :
        \A c \in RowsOf(problem, K) : RowHolds(c, v)}

Better(problem, x, y) ==
    IF problem.direction = "Minimize" THEN x <= y ELSE x >= y

OptimalOf(problem, K) ==
    LET feas == FeasibleOf(problem, K)
    IN {v \in feas : \A w \in feas :
            Better(problem, SumObjective(problem, v, K), SumObjective(problem, w, K))}

\* a free variable whose objective improves without limit
FreeUnbounded(problem, K) ==
    /\ IsFree(problem, K)
    /\ \E i \in K : /\ problem.direction = "Maximize"
                    /\ problem.vars[i].obj > 0
                    /\ problem.vars[i].max = None

\* a free variable sits at the bound its objective coefficient favours
FreeOptimal(problem, K) ==
    {[i \in K |->
        IF (problem.direction = "Maximize" /\ problem.vars[i].obj > 0)
           \/ (problem.direction = "Minimize" /\ problem.vars[i].obj < 0)
        THEN Unwrap(problem.vars[i].max)
        ELSE problem.vars[i].min]}

\* rows without any variable (a nutrient constraint over no product)
ConstantRowsHold(problem) ==
    \A c \in Range(problem.cons) : VarsOf(c) = {} => RowHolds(c, <<>>)

RECURSIVE CombineOptima(_, _)
CombineOptima(problem, comps) ==
    IF comps = {} THEN {<<>>}
    ELSE LET K == CHOOSE x \in comps : TRUE
         IN {v @@ w : v \in (IF IsFree(problem, K) THEN FreeOptimal(problem, K)
                                ELSE OptimalOf(problem, K)),
                      w \in CombineOptima(problem, comps \ {K})}

\* The outcomes Problem::solve can return.  With a tie every optimum is a
\* possible answer.  When a problem has no integer solution and also holds an
\* unbounded free variable, which of the two errors is reported depends on
\* whether its continuous relaxation is feasible: both are possible here.
Solve(problem) ==
    LET comps == Components(problem)
        feasible == /\ ConstantRowsHold(problem)
                    /\ \A K \in comps : IsFree(problem, K) \/ FeasibleOf(problem, K) # {}
        unbounded == \E K \in comps : FreeUnbounded(problem, K)
    IN IF ~feasible
       THEN {[kind |-> "Err", error |-> "Infeasible"]}
            \cup (IF unbounded THEN {[kind |-> "Err", error |-> "Unbounded"]} ELSE {})
       ELSE IF unbounded
       THEN {[kind |-> "Err", error |-> "Unbounded"]}
       ELSE {[kind |-> "Ok", values |-> v] : v \in CombineOptima(problem, comps)}

---------------------------------------------------------------------------
(* solve_day and the extraction of the solution *)

\* `as u16` of a solved unit count
AsU16(x) == x % (U16_MAX + 1)

\* solver_solution_to_output emitting every Fraction over 1
solver_solution_to_output_DenominatorOne(self, values) ==
    LET ProductOut(product) ==
            [product |-> product.product,
             amount_grams |-> values[product.variable_gram],
             unit |-> product.unit,
             amount_unit |-> [numerator |-> AsU16(values[product.variable_unit_divided]),
                              denominator |-> 1]]
        MealOut(meal) ==
            [name |-> meal.name,
             entries |-> [k \in 1..Len(meal.inner) |-> ProductOut(meal.inner[k])]]
        DayOut(day) ==
            [name |-> day.name,
             entries |-> [k \in 1..Len(day.inner) |-> MealOut(day.inner[k])]]
    IN [entries |-> [k \in 1..Len(self.variables.inner) |-> DayOut(self.variables.inner[k])]]

\* solver_solution_to_output: Week -> Day -> Meal -> Product, walking
\* self.variables in the order it was built
solver_solution_to_output(self, values) ==
    LET ProductOut(product) ==
            [product |-> product.product,
             amount_grams |-> values[product.variable_gram],
             unit |-> product.unit,
             amount_unit |-> [numerator |-> AsU16(values[product.variable_unit_divided]),
                              denominator |-> product.product.allowed_units[product.unit].divider]]
        MealOut(meal) ==
            [name |-> meal.name,
             entries |-> [k \in 1..Len(meal.inner) |-> ProductOut(meal.inner[k])]]
        DayOut(day) ==
            [name |-> day.name,
             entries |-> [k \in 1..Len(day.inner) |-> MealOut(day.inner[k])]]
    IN [entries |-> [k \in 1..Len(self.variables.inner) |-> DayOut(self.variables.inner[k])]]

MsgInfeasible == "Constraints are infeasible"

MsgUnbounded == "Problem is unbounded"

\* solve_day with the two fixed messages on the wrong match arms
solve_day_results_SwappedMessages(self) ==
    {IF o.kind = "Ok"
     THEN [kind |-> "Ok", solution |-> solver_solution_to_output(self, o.values)]
     ELSE [kind |-> "Err",
           msg |-> IF o.error = "Infeasible" THEN MsgUnbounded ELSE MsgInfeasible] :
        o \in Solve(self.problem)}

\* The results solve_day can return once the constraints are compiled
solve_day_results(self) ==
    {IF o.kind = "Ok"
     THEN [kind |-> "Ok", solution |-> solver_solution_to_output(self, o.values)]
     ELSE [kind |-> "Err",
           msg |-> IF o.error = "Infeasible" THEN MsgInfeasible ELSE MsgUnbounded] :
        o \in Solve(self.problem)}

\* The orders in which a HashMap's iterator can yield its keys
Orders(map) ==
    LET n == Cardinality(DOMAIN map)
    IN {f \in [1..n -> DOMAIN map] : \A a, b \in 1..n : f[a] = f[b] => a = b}

---------------------------------------------------------------------------
(* The day plans handed to solve_day *)

PC(food, low, up, unit) == Unwrap(ProductConstraint_new(food, low, up, unit))

NC(element, min, max) == Unwrap(NutrientConstraint_new(element, min, max))

Powder ==
    Product_new("ProteinPowder", None, Macros(F(5), F(40)), Micros(Some(F(5)), None),
                MapInsert(MapInsert(EmptyMap, "Piece", UnitData(50, 1)), "Cup", UnitData(25, 2)))

Eggs ==
    Product_new("Eggs", None, Macros(F(5), F(30)), Micros(Some(F(8)), None),
                MapInsert(EmptyMap, "Piece", UnitData(50, 1)))

Beans ==
    Product_new("Beans", Some("Farm"), Macros(F(5), F(18)), Micros(Some(F(5)), None),
                MapInsert(EmptyMap, "Piece", UnitData(100, 1)))

Spinach ==
    Product_new("Spinach", None, Macros(F(5), F(4)), Micros(Some(F(20)), None),
                MapInsert(EmptyMap, "Piece", UnitData(25, 1)))

Rice ==
    Product_new("Rice", None, Macros(F(1), F(10)), Micros(None, None),
                MapInsert(EmptyMap, "Box", UnitData(30000, 1)))

Meal(products, nutrients) == [products |-> products, nutrients |-> nutrients]

Day(meals, nutrients) == [meals |-> meals, nutrients |-> nutrients]

\* one product, bounds on the meal and on the day (test_solver_handles_feasible_day,
\* in pieces of 50 g)
FeasibleDay ==
    Day(MapInsert(EmptyMap, "Breakfast",
            Meal(<<PC(Powder, Some(0), Some(200), "Piece")>>,
                 <<NC("Protein", Some(F(20)), Some(F(100))), NC("Fat", Some(F(0)), None)>>)),
        <<NC("Protein", Some(F(15)), Some(F(120))), NC("Alcohol", None, Some(F(0)))>>)

\* a product capped at 60 g and a protein minimum it cannot reach
\* (test_solver_reports_infeasible_constraints)
InfeasibleDay ==
    Day(MapInsert(EmptyMap, "Lunch",
            Meal(<<PC(Powder, Some(0), Some(60), "Piece")>>,
                 <<NC("Protein", Some(F(200)), Some(F(220)))>>)),
        <<>>)

\* a product constraint with no low and no high bound and no nutrient constraint
\* (the plan of test_solver_reports_unbounded_problem)
NoBoundsDay ==
    Day(MapInsert(EmptyMap, "Dinner", Meal(<<PC(Rice, None, None, "Box")>>, <<>>)), <<>>)

\* two meals with meal and day bounds on a macro and a micro nutrient
\* (test_solver_handles_multiple_meals_and_day_constraints)
TwoMealDay ==
    Day(MapInsert(MapInsert(EmptyMap, "Breakfast",
            Meal(<<PC(Eggs, Some(50), Some(150), "Piece")>>,
                 <<NC("Protein", Some(F(30)), Some(F(80)))>>)),
            "Dinner",
            Meal(<<PC(Beans, Some(100), Some(300), "Piece"),
                   PC(Spinach, Some(0), Some(100), "Piece")>>,
                 <<NC("Protein", Some(F(35)), Some(F(90))),
                   NC("Fiber", Some(F(10)), Some(F(20)))>>)),
        <<NC("Protein", Some(F(65)), Some(F(90))), NC("Fiber", Some(F(25)), Some(F(35)))>>)

\* one product asked for in a unit with a divider: cups of 25 g, divider 2
CupDay ==
    Day(MapInsert(EmptyMap, "Breakfast",
            Meal(<<PC(Powder, Some(0), Some(200), "Cup")>>,
                 <<NC("Protein", Some(F(20)), Some(F(100)))>>)),
        <<>>)

\* the same product in two meals, with a bound on one meal and on the day
SharedProductDay ==
    Day(MapInsert(MapInsert(EmptyMap, "Breakfast",
            Meal(<<PC(Eggs, Some(50), Some(150), "Piece")>>,
                 <<NC("Protein", Some(F(30)), Some(F(80)))>>)),
            "Dinner",
            Meal(<<PC(Eggs, Some(0), Some(100), "Piece")>>, <<>>)),
        <<NC("Protein", Some(F(40)), Some(F(90)))>>)

\* test_solver_handles_feasible_day as written, in grams, and a nutrient
\* constraint with neither bound
GramDay ==
    Day(MapInsert(EmptyMap, "Breakfast",
            Meal(<<PC(Powder, Some(0), Some(200), "Gram")>>,
                 <<NC("Protein", Some(F(20)), Some(F(100))), NC("Fat", Some(F(0)), None),
                   NC("Fiber", None, None)>>)),
        <<NC("Protein", Some(F(15)), Some(F(120))), NC("Alcohol", None, Some(F(0)))>>)

DayPlans ==
    {FeasibleDay, InfeasibleDay, NoBoundsDay, TwoMealDay, CupDay, SharedProductDay, GramDay}

---------------------------------------------------------------------------
(* The solver's actions *)

\* solve_day(day_constraints): compile into the solver's problem, solve, and
\* return the solution or the error
SolveDay(day_constraints, order) ==
    /\ Len(history) < MaxCalls
    /\ LET compiled == create_constraints(solver, day_constraints, order)
       IN /\ solver' = compiled
          /\ result' \in solve_day_results(compiled)
    /\ history' = Append(history, [day |-> day_constraints, order |-> order])
    /\ UNCHANGED <<pc, nc, ret, me, db, worker>>

\* What the solver's unit test does through the private field: one variable
\* with objective 1.0 and bounds (0, INFINITY), added before solve_day
AddFreeVariable ==
    /\ Len(solver.problem.vars) = 0
    /\ solver' = [solver EXCEPT !.problem = add_var(@, 100, 0, None)]
    /\ UNCHANGED <<pc, nc, ret, result, history, me, db, worker>>

NoSolver == ConstraintsSolver_new("Min", "Protein")

NoResult == [kind |-> "None"]

---------------------------------------------------------------------------
(* Constructing and updating constraint records *)

NewProductConstraint(food, low_bound, up_bound, unit) ==
    LET r == ProductConstraint_new(food, low_bound, up_bound, unit) IN
    /\ ret' = [op |-> "ProductConstraint::new", food |-> food, low_bound |-> low_bound,
               up_bound |-> up_bound, unit |-> unit, value |-> r]
    /\ pc' = IF IsSome(r) THEN r ELSE pc
    /\ UNCHANGED <<nc, solver, result, history, me, db, worker>>

UpdateProductConstraint(other) ==
    /\ IsSome(pc)
    /\ pc' = Some(ProductConstraint_update(Unwrap(pc), other))
    /\ ret' = [op |-> "ProductConstraint::update", other |-> other]
    /\ UNCHANGED <<nc, solver, result, history, me, db, worker>>

NewNutrientConstraint(element, min, max) ==
    LET r == NutrientConstraint_new(element, min, max) IN
    /\ ret' = [op |-> "NutrientConstraint::new", element |-> element, min |-> min,
               max |-> max, value |-> r]
    /\ nc' = IF IsSome(r) THEN r ELSE nc
    /\ UNCHANGED <<pc, solver, result, history, me, db, worker>>

UpdateNutrientConstraint(other) ==
    /\ IsSome(nc)
    /\ nc' = Some(NutrientConstraint_update(Unwrap(nc), other))
    /\ ret' = [op |-> "NutrientConstraint::update", other |-> other]
    /\ UNCHANGED <<pc, solver, result, history, me, db, worker>>

\* ProductSwapper::get_amount_of_swapped_product(input, amount, output, nutrient, unit)
GetAmountOfSwappedProduct(input, amount, output, nutrient_equivalent, allowed_units) ==
    /\ \E r \in get_amount_of_swapped_product(input, amount, output, nutrient_equivalent,
                                               allowed_units) :
          ret' = [op |-> "get_amount_of_swapped_product", input |-> input, amount |-> amount,
                  output |-> output, nutrient |-> nutrient_equivalent, unit |-> allowed_units,
                  value |-> r]
    /\ UNCHANGED <<pc, nc, solver, result, history, me, db, worker>>

\* ProductSwapper::get_grams_of_swapped_product(input, amount, output, nutrient)
GetGramsOfSwappedProduct(input, amount, output, nutrient_equivalent) ==
    /\ \E r \in get_grams_of_swapped_product(input, amount, output, nutrient_equivalent) :
          ret' = [op |-> "get_grams_of_swapped_product", input |-> input, amount |-> amount,
                  output |-> output, nutrient |-> nutrient_equivalent, unit |-> "Gram",
                  value |-> r]
    /\ UNCHANGED <<pc, nc, solver, result, history, me, db, worker>>

\* Product::new(name, brand, .., allowed_units)
NewProduct(name, brand, allowed_units) ==
    /\ ret' = [op |-> "Product::new", name |-> name, brand |-> brand,
               allowed_units |-> allowed_units,
               value |-> Product_new(name, brand, Macros(F(1), F(5)), Micros(None, None),
                                     allowed_units)]
    /\ UNCHANGED <<pc, nc, solver, result, history, me, db, worker>>

\* MacroElements::new(fat, saturated_fat, carbs, sugar, protein), which builds
\* the record the set calls then work on
NewMacroElements(fat, saturated_fat, carbs, sugar, protein) ==
    /\ me = None
    /\ me' = Some(MacroElements_new(fat, saturated_fat, carbs, sugar, protein))
    /\ ret' = [op |-> "MacroElements::new"]
    /\ UNCHANGED <<pc, nc, solver, result, history, db, worker>>

\* me.set(key, value) on the record the caller holds
SetMacroElement(key, value) ==
    /\ IsSome(me)
    /\ LET r == MacroElements_set(Unwrap(me), key, value)
       IN /\ me' = Some(r.elements)
          /\ ret' = [op |-> "MacroElements::set", key |-> key, arg |-> value,
                     before |-> Unwrap(me), value |-> r.value]
    /\ UNCHANGED <<pc, nc, solver, result, history, db, worker>>

---------------------------------------------------------------------------
(* The product database (Database trait and its implementations) *)

\* Text is a sequence of characters, so that prefixes and patterns can be
\* matched: "Ap" is <<"A", "p">>.

\* str::starts_with
starts_with(text, prefix) ==
    Len(prefix) <= Len(text) /\ SubSeq(text, 1, Len(prefix)) = prefix

\* SQLite compares ASCII letters in LIKE without regard to case
ToLower(c) == IF c = "A" THEN "a" ELSE IF c = "B" THEN "b" ELSE IF c = "P" THEN "p" ELSE c

\* SQLite's LIKE: % matches any run of characters, _ any one character
RECURSIVE Like(_, _)
Like(pattern, text) ==
    IF pattern = <<>> THEN text = <<>>
    ELSE IF Head(pattern) = "%"
    THEN Like(Tail(pattern), text) \/ (text # <<>> /\ Like(pattern, Tail(text)))
    ELSE /\ text # <<>>
         /\ Head(pattern) = "_" \/ ToLower(Head(pattern)) = ToLower(Head(text))
         /\ Like(Tail(pattern), Tail(text))

\* Product::id as text: "name (brand)" with a non-empty brand, else the name
id_text(product) ==
    IF IsSome(product.brand) /\ Unwrap(product.brand) # <<>>
    THEN product.name \o <<" ", "(">> \o Unwrap(product.brand) \o <<")">>
    ELSE product.name

\* a product as the database tests build it
make_product(name, brand) ==
    Product_new(name, brand, Macros(F(1), F(5)), Micros(None, None), EmptyMap)

\* the product read back from a row of the joined tables
map_query_row_to_product(row) ==
    Product_new(row.name, row.brand, row.macro_elements, row.micro_nutrients, row.allowed_units)

\* the implementations of the trait: the test double of the trait's tests, the
\* mock database and the SQLite database
DatabaseKinds == {"DummyDb", "MockProductDb", "LocalProductDb"}

NoDatabase == [kind |-> "DummyDb", products |-> EmptyMap]

\* the ById criterion of the SQLite database: products.name LIKE '<id>%'
db_search_criteria_to_sql_query_fragment(criteria, row) ==
    \A i \in 1..Len(criteria) : Like(criteria[i] \o <<"%">>, row.name)

\* get_products_matching_criteria of each implementation; criteria is a
\* sequence of ById texts.  The result is keyed by the stored id.
get_products_matching_criteria(database, criteria) ==
    LET products == database.products
        keys ==
            IF database.kind = "DummyDb"
            THEN {criteria[i] : i \in 1..Len(criteria)} \cap DOMAIN products
            ELSE IF database.kind = "MockProductDb"
            THEN {k \in DOMAIN products :
                     \A i \in 1..Len(criteria) : starts_with(id_text(products[k]), criteria[i])}
            ELSE {k \in DOMAIN products :
                     db_search_criteria_to_sql_query_fragment(criteria, products[k])}
    IN [k \in keys |-> IF database.kind = "LocalProductDb"
                       THEN map_query_row_to_product(products[k])
                       ELSE products[k]]

\* Database::get_product_by_id, the trait's default implementation
get_product_by_id(database, product_id) ==
    LET results == get_products_matching_criteria(database, <<product_id>>)
    IN IF product_id \in DOMAIN results THEN Some(results[product_id]) ELSE None

---------------------------------------------------------------------------
(* The DbWorkerHandle and its worker *)

\* number of send_raw calls made on the handle
MaxSends == 2

\* number of Debug and non-string messages the worker posts
MaxChatter == 2

Calls == 1..MaxSends

\* a message the worker posts: a string or not, its "type", and the request
\* of the call it was posted for
Message(is_string, type, request) ==
    [is_string |-> is_string, type |-> type, request |-> request]

\* DbWorkerHandle::new: no onmessage or onerror handler, nothing posted, no
\* promise made
Worker_new ==
    [onmessage |-> None, onerror |-> None, inbox |-> <<>>, outbox |-> <<>>,
     promise |-> [c \in Calls |-> [state |-> "NotStarted"]], chatter |-> 0]

\* the on_message closure of call c receiving evt: non-string and Debug
\* packets are ignored, anything else removes both handlers and resolves the
\* promise of c
on_message(w, c, evt) ==
    IF ~evt.is_string THEN w
    ELSE IF evt.type = "Debug" THEN w
    ELSE [w EXCEPT !.onmessage = None, !.onerror = None,
                   !.promise[c] = [state |-> "Resolved", text |-> evt]]

InitConstraints ==
    /\ pc = None
    /\ nc = None
    /\ ret = [op |-> "none"]
    /\ solver = NoSolver
    /\ result = NoResult
    /\ history = <<>>
    /\ me = None
    /\ db = NoDatabase
    /\ worker = Worker_new

NextProductConstraint ==
    \/ \E f \in ConstraintProducts, l \in OptBounds, u \in OptBounds, un \in AllowedUnitsType :
          NewProductConstraint(f, l, u, un)
    \/ \E other \in ProductConstraints : UpdateProductConstraint(other)

NextNutrientConstraint ==
    \/ \E e \in {"Protein", "Fiber"}, mn \in OptF32, mx \in OptF32 :
          NewNutrientConstraint(e, mn, mx)
    \/ \E other \in NutrientConstraints : UpdateNutrientConstraint(other)

\* A caller building and replacing ProductConstraint records
SpecProductConstraint == InitConstraints /\ [][NextProductConstraint]_vars

\* A caller building and replacing NutrientConstraint records
SpecNutrientConstraint == InitConstraints /\ [][NextNutrientConstraint]_vars

\* the conversion rules offered for a unit: the default, another whole-unit
\* rule and a rule with a divider
UnitDatas == {UnitData(1, 1), UnitData(123, 1), UnitData(250, 2)}

\* the allowed-unit tables a caller passes: empty, without Gram, with Gram
AllowedUnitsTables == UNION {[S -> UnitDatas] : S \in SUBSET {"Gram", "Cup", "Box"}}

NextProduct ==
    \E name \in {"Olive", "Milk"}, brand \in {None, Some(""), Some("Farm")},
       allowed_units \in AllowedUnitsTables :
        NewProduct(name, brand, allowed_units)

\* A caller building products
SpecProduct == InitConstraints /\ [][NextProduct]_vars

\* The products handed to the swapper: fat 91, 3, 1 and 0 per 100 g, fiber
\* present or absent, with and without a brand and further units
Olive ==
    Product_new("Olive", None, Macros(F(91), F(0)), Micros(None, None),
                MapInsert(EmptyMap, "Box", UnitData(250, 2)))

Skim ==
    Product_new("Skim", None, Macros(F(1), F(3)), Micros(Some(F(2)), None),
                MapInsert(EmptyMap, "Cup", UnitData(125, 1)))

Water == Product_new("Water", Some(""), Macros(F(0), F(0)), Micros(Some(F(0)), None), EmptyMap)

\* a product whose public allowed_units field was replaced after construction
Bulk == [Olive EXCEPT !.name = "Bulk", !.allowed_units = MapInsert(EmptyMap, "Box", UnitData(250, 2))]

SwapProducts == {Olive, MilkProduct, Skim, Water, Bulk}

\* input quantities
SwapAmounts == {F(0), F(55), F(1000)}

NextSwapper ==
    \/ \E input \in SwapProducts, amount \in SwapAmounts, output \in SwapProducts,
          nutrient \in {"Fat", "Fiber"}, unit \in {"Gram", "Cup", "Box"} :
          GetAmountOfSwappedProduct(input, amount, output, nutrient, unit)
    \/ \E input \in SwapProducts, amount \in SwapAmounts, output \in SwapProducts,
          nutrient \in {"Fat", "Fiber"} :
          GetGramsOfSwappedProduct(input, amount, output, nutrient)

\* A caller of the two swap functions
SpecSwapper == InitConstraints /\ [][NextSwapper]_vars

\* f32 amounts: NaN and the numbers 0..MaxMacro
MacroValues == {NaN} \cup {F(x) : x \in 0..MaxMacro}

NextMacroElements ==
    \/ \E fat \in MacroValues, saturated_fat \in MacroValues, carbs \in MacroValues,
          sugar \in MacroValues, protein \in MacroValues :
          NewMacroElements(fat, saturated_fat, carbs, sugar, protein)
    \/ \E key \in MacroElementsType, value \in MacroValues : SetMacroElement(key, value)

\* A caller building a MacroElements record and setting its amounts
SpecMacroElements == InitConstraints /\ [][NextMacroElements]_vars

\* A solver is constructed for a direction and a target nutrient
InitSolver ==
    /\ pc = None
    /\ nc = None
    /\ ret = [op |-> "none"]
    /\ \E d \in {"Min", "Max"}, n \in {"Protein", "Fiber"} : solver = ConstraintsSolver_new(d, n)
    /\ result = NoResult
    /\ history = <<>>
    /\ me = None
    /\ db = NoDatabase
    /\ worker = Worker_new

NextSolver ==
    \E day \in DayPlans : \E order \in Orders(day.meals) : SolveDay(day, order)

NextSolverTest ==
    \/ \E day \in DayPlans : \E order \in Orders(day.meals) : SolveDay(day, order)
    \/ AddFreeVariable

\* The solver used through its public interface: new, then solve_day calls
Spec == InitSolver /\ [][NextSolver]_vars

\* The solver as its unit tests use it, which also reach into its problem
SpecSolverTest == InitSolver /\ [][NextSolverTest]_vars

---------------------------------------------------------------------------
(* Claims about constraint construction *)

\* C1: ProductConstraint::new returns None whenever the unit is not a key of the
\* product's allowed-unit table, whatever the product and the bounds.
C1_UnitAbsentReturnsNone ==
    (ret.op = "ProductConstraint::new" /\ ret.unit \notin DOMAIN ret.food.allowed_units)
        => ret.value = None

\* new was called with a unit the product does not have, both bounds given and ordered
C1_Witness ==
    /\ ret.op = "ProductConstraint::new"
    /\ ret.unit \notin DOMAIN ret.food.allowed_units
    /\ IsSome(ret.low_bound) /\ IsSome(ret.up_bound)
    /\ Unwrap(ret.low_bound) < Unwrap(ret.up_bound)
    /\ ret.value = None

\* C2: with the unit in the product's table, ProductConstraint::new returns None
\* exactly when both bounds are given and low > high; otherwise it returns Some
\* record whose low_bound, up_bound and unit (and product) are the arguments.
C2_BoundsDecide ==
    (ret.op = "ProductConstraint::new" /\ ret.unit \in DOMAIN ret.food.allowed_units)
        => /\ (ret.value = None) <=>
                (/\ IsSome(ret.low_bound) /\ IsSome(ret.up_bound)
                 /\ Unwrap(ret.low_bound) > Unwrap(ret.up_bound))
           /\ IsSome(ret.value) =>
                /\ Unwrap(ret.value).low_bound = ret.low_bound
                /\ Unwrap(ret.value).up_bound = ret.up_bound
                /\ Unwrap(ret.value).unit = ret.unit
                /\ Unwrap(ret.value).food = ret.food
                /\ pc = ret.value

\* new accepted equal bounds on a unit of the product other than the default Gram
C2_Witness ==
    /\ ret.op = "ProductConstraint::new"
    /\ ret.unit \in DOMAIN ret.food.allowed_units
    /\ ret.unit # "Gram"
    /\ IsSome(ret.low_bound) /\ ret.low_bound = ret.up_bound
    /\ IsSome(ret.value)

\* "v is negative" for an f32
IsNegative(x) == FLt(x, F(0))

\* C3: NutrientConstraint::new returns None exactly when min is present and
\* negative, or max is present and negative, or both are present and min > max;
\* an accepted record reports the given target, min and max.
C3_NutrientBoundsDecide ==
    ret.op = "NutrientConstraint::new"
        => /\ (ret.value = None) <=>
                \/ IsSome(ret.min) /\ IsNegative(Unwrap(ret.min))
                \/ IsSome(ret.max) /\ IsNegative(Unwrap(ret.max))
                \/ IsSome(ret.min) /\ IsSome(ret.max) /\ FGt(Unwrap(ret.min), Unwrap(ret.max))
           /\ IsSome(ret.value) =>
                /\ Unwrap(ret.value).element = ret.element
                /\ Unwrap(ret.value).min = ret.min
                /\ Unwrap(ret.value).max = ret.max
                /\ nc = ret.value

\* new accepted min == max == 0
C3_Witness ==
    /\ ret.op = "NutrientConstraint::new"
    /\ ret.min = Some(F(0)) /\ ret.max = Some(F(0))
    /\ IsSome(ret.value)

\* The invariant of an existing ProductConstraint
ProductConstraintValid(c) ==
    /\ c.unit \in DOMAIN c.food.allowed_units
    /\ (IsSome(c.low_bound) /\ IsSome(c.up_bound)) => Unwrap(c.low_bound) <= Unwrap(c.up_bound)

\* The invariant of an existing NutrientConstraint
NutrientConstraintValid(c) ==
    /\ IsSome(c.min) => ~IsNegative(Unwrap(c.min))
    /\ IsSome(c.max) => ~IsNegative(Unwrap(c.max))
    /\ (IsSome(c.min) /\ IsSome(c.max)) => FLe(Unwrap(c.min), Unwrap(c.max))

\* C4: after any sequence of new and update, an existing ProductConstraint has its
\* unit in its product's table and low <= high when both are present, an existing
\* NutrientConstraint has no negative bound and min <= max when both are present,
\* and update(other) leaves the record equal to other.
C4_RecordsStayValid ==
    /\ IsSome(pc) => ProductConstraintValid(Unwrap(pc))
    /\ IsSome(nc) => NutrientConstraintValid(Unwrap(nc))
    /\ ret.op = "ProductConstraint::update" => pc = Some(ret.other)
    /\ ret.op = "NutrientConstraint::update" => nc = Some(ret.other)

---------------------------------------------------------------------------
(* Claims about solve_day *)

LastCall == history[Len(history)]

Called == result.kind # "None"

ErrInfeasible == [kind |-> "Err", msg |-> MsgInfeasible]

ErrUnbounded == [kind |-> "Err", msg |-> MsgUnbounded]

\* 100 x the nutrient total of a list of solved products: the sum of
\* grams x amount per 100 g, an absent micro-nutrient counting as 0
RECURSIVE Total100(_, _, _)
Total100(products, element, k) ==
    IF k > Len(products) THEN 0
    ELSE products[k].amount_grams
            * UnwrapOr(get_nutrient_amount(products[k].product, element), F(0)).v
         + Total100(products, element, k + 1)

\* the solved products of all meals of a day
RECURSIVE DayProducts(_, _)
DayProducts(meals, k) ==
    IF k > Len(meals) THEN <<>> ELSE meals[k].entries \o DayProducts(meals, k + 1)

\* total lies in [min, max] of the constraint, an absent bound imposing nothing
Within(total100, constr) ==
    /\ IsSome(constr.min) => total100 >= 100 * Unwrap(constr.min).v
    /\ IsSome(constr.max) => total100 <= 100 * Unwrap(constr.max).v

\* a solved day satisfies every nutrient bound its day constraint declares
DayWithinBounds(dayOut, day) ==
    /\ \A name \in DOMAIN day.meals : \A constr \in Range(day.meals[name].nutrients) :
          \E m \in Range(dayOut.entries) :
              m.name = name /\ Within(Total100(m.entries, constr.element, 1), constr)
    /\ \A constr \in Range(day.nutrients) :
          Within(Total100(DayProducts(dayOut.entries, 1), constr.element, 1), constr)

\* C5: whenever solve_day returns Ok, the returned gram amounts satisfy every
\* declared nutrient bound, of every meal over that meal's products and of the
\* day over all products (for the day just passed, and for each earlier day
\* the returned week still holds).
C5_NutrientBoundsHold ==
    result.kind = "Ok" =>
        \A d \in 1..Len(history) :
            DayWithinBounds(result.solution.entries[d], history[d].day)

\* solve_day returned Ok for the two-meal day, which has meal and day bounds
C5_Witness ==
    /\ result.kind = "Ok"
    /\ LastCall.day = TwoMealDay
    /\ \E p \in Range(DayProducts(result.solution.entries[Len(history)].entries, 1)) :
          p.amount_grams > 0

\* a solved day has one Meal per input meal, named after it, and each Meal has
\* one Product per ProductConstraint, in list order, with its product and unit
DayMirrors(dayOut, day) ==
    /\ Len(dayOut.entries) = Cardinality(DOMAIN day.meals)
    /\ {m.name : m \in Range(dayOut.entries)} = DOMAIN day.meals
    /\ \A m \in Range(dayOut.entries) :
          LET pcs == day.meals[m.name].products
          IN /\ Len(m.entries) = Len(pcs)
             /\ \A k \in 1..Len(pcs) :
                   /\ m.entries[k].product = pcs[k].food
                   /\ m.entries[k].unit = pcs[k].unit

\* C6: in a successful solve_day, the Day built from the day constraint mirrors
\* it: one Meal entry per input meal with its name, and in each Meal one Product
\* entry per ProductConstraint, in list order, with that product and unit.
C6_TreeMirrorsInput ==
    result.kind = "Ok" =>
        \A d \in 1..Len(history) :
            DayMirrors(result.solution.entries[d], history[d].day)

\* Ok for a day with two meals, one of them with two different products
C6_Witness ==
    /\ result.kind = "Ok"
    /\ Cardinality(DOMAIN LastCall.day.meals) = 2
    /\ \E m \in Range(result.solution.entries[Len(history)].entries) :
          Len(m.entries) = 2 /\ m.entries[1].product # m.entries[2].product

\* C7: every successful solve_day call returns a Week with exactly one Day,
\* named "Day1", also on a second or later call on the same solver.
C7_OneDayPerCall ==
    result.kind = "Ok" =>
        /\ Len(result.solution.entries) = 1
        /\ result.solution.entries[1].name = "Day1"

\* Ok, or the error message
OutcomeKind(r) == IF r.kind = "Ok" THEN "Ok" ELSE r.msg

\* what solve_day returns for a day constraint on a solver nothing was done to
FreshResults(direction, nutrient, day) ==
    UNION {solve_day_results(
               create_constraints(
                   ConstraintsSolver_new(IF direction = "Minimize" THEN "Min" ELSE "Max", nutrient),
                   day, order)) : order \in Orders(day.meals)}

\* C8: the outcome of solve_day (Ok or the error kind) for a day constraint,
\* direction and target nutrient does not depend on the solve_day calls made
\* before it on the same solver.
C8_CallsIndependent ==
    Called =>
        OutcomeKind(result) \in
            {OutcomeKind(r) :
                r \in FreshResults(solver.problem.direction, solver.nutrient_to_optimize,
                                   LastCall.day)}

\* The unit counts a product constraint admits: n in 0..65535 with
\* low <= n * (amount * divider) <= up, the bounds defaulting to 0 and 65535
PlanCountRange(constr) ==
    LET unit == constr.food.allowed_units[constr.unit]
        k == unit.amount * unit.divider
    IN {n \in CeilDiv(UnwrapOr(constr.low_bound, 0), k)
              .. Min2(U16_MAX, UnwrapOr(constr.up_bound, U16_MAX) \div k) : TRUE}

\* the product constraints of a day: <<meal name, position in the meal's list>>
Occurrences(day) ==
    UNION {{<<m, k>> : k \in 1..Len(day.meals[m].products)} : m \in DOMAIN day.meals}

RECURSIVE PlanAssignments(_, _)
PlanAssignments(day, occs) ==
    IF occs = {} THEN {<<>>}
    ELSE LET o == CHOOSE x \in occs : TRUE
         IN {(o :> n) @@ a : n \in PlanCountRange(day.meals[o[1]].products[o[2]]),
                              a \in PlanAssignments(day, occs \ {o})}

\* 100 x the nutrient total of the occurrences occs under the unit counts a
RECURSIVE PlanTotal100(_, _, _, _)
PlanTotal100(day, a, occs, element) ==
    IF occs = {} THEN 0
    ELSE LET o == CHOOSE x \in occs : TRUE
             constr == day.meals[o[1]].products[o[2]]
             unit == constr.food.allowed_units[constr.unit]
         IN a[o] * (unit.amount * unit.divider)
                 * UnwrapOr(get_nutrient_amount(constr.food, element), F(0)).v
            + PlanTotal100(day, a, occs \ {o}, element)

\* some assignment of unit counts (hence of grams) satisfies every product
\* bound and every nutrient inequality of the day plan
PlanSatisfiable(day) ==
    \E a \in PlanAssignments(day, Occurrences(day)) :
        /\ \A m \in DOMAIN day.meals : \A constr \in Range(day.meals[m].nutrients) :
              Within(PlanTotal100(day, a, {o \in Occurrences(day) : o[1] = m}, constr.element),
                     constr)
        /\ \A constr \in Range(day.nutrients) :
              Within(PlanTotal100(day, a, Occurrences(day), constr.element), constr)

\* C9: if no assignment satisfies all bounds, equalities and nutrient
\* inequalities of the day plan at once, solve_day returns Err with exactly
\* "Constraints are infeasible" (and so no Solution).
C9_InfeasibleReported ==
    (Called /\ ~PlanSatisfiable(LastCall.day)) => result = ErrInfeasible

\* the first call on a solver, with an unsatisfiable plan, returned the message
C9_Witness ==
    /\ Len(history) = 1
    /\ ~PlanSatisfiable(LastCall.day)
    /\ result = ErrInfeasible

\* a product constraint with no low and no high bound on a product with a
\* positive amount of the target nutrient
HasUnconstrainedProduct(day, nutrient) ==
    \E m \in DOMAIN day.meals : \E constr \in Range(day.meals[m].products) :
        /\ constr.low_bound = None /\ constr.up_bound = None
        /\ UnwrapOr(get_nutrient_amount(constr.food, nutrient), F(0)).v > 0

\* C10 as stated: a plan with a product constraint without bounds, whose
\* target nutrient is positive, solved with Max, returns "Problem is unbounded".
C10_UnboundedAsStated ==
    (/\ Called
     /\ solver.problem.direction = "Maximize"
     /\ HasUnconstrainedProduct(LastCall.day, solver.nutrient_to_optimize))
        => result = ErrUnbounded

\* the problem holds a variable with a positive objective and no upper bound
HasInfiniteVariable(problem) ==
    \E i \in 1..Len(problem.vars) : problem.vars[i].obj > 0 /\ problem.vars[i].max = None

\* C10 amended: solve_day returns "Problem is unbounded" only under Max and
\* only when the problem holds a variable with a positive objective coefficient
\* and no finite upper bound, which the compilation of a day plan never creates
\* (it takes one added to the problem directly); with such a variable, Max and
\* satisfiable plans it does return that message.  A product constraint
\* without bounds is capped at 65535 g and does not make the problem unbounded.
C10_UnboundedNeedsInfiniteVariable ==
    Called =>
        /\ result = ErrUnbounded =>
              (solver.problem.direction = "Maximize" /\ HasInfiniteVariable(solver.problem))
        /\ (/\ solver.problem.direction = "Maximize"
            /\ HasInfiniteVariable(solver.problem)
            /\ \A d \in 1..Len(history) : PlanSatisfiable(history[d].day))
              => result = ErrUnbounded

\* "Problem is unbounded" was returned for the plan with the unbounded product
C10_Witness ==
    /\ Called
    /\ result = ErrUnbounded
    /\ HasUnconstrainedProduct(LastCall.day, solver.nutrient_to_optimize)

\* with no variable added directly, the unbounded product under Max is solved
C10_WitnessCapped ==
    /\ result.kind = "Ok"
    /\ solver.problem.direction = "Maximize"
    /\ HasUnconstrainedProduct(LastCall.day, solver.nutrient_to_optimize)

---------------------------------------------------------------------------
(* Claims about MacroElements *)

\* Calories is 9 x Fat + 4 x Carbs + 4 x Protein (NaN when one of them is NaN)
CaloriesDerived(m) ==
    IF m.Fat.nan \/ m.Carbs.nan \/ m.Protein.nan
    THEN m.Calories.nan
    ELSE ~m.Calories.nan /\ m.Calories.v = 9 * m.Fat.v + 4 * m.Carbs.v + 4 * m.Protein.v

\* C16: after MacroElements::new and any sequence of set calls, Calories is
\* 9 x Fat + 4 x Carbs + 4 x Protein; set(Calories, v) returns Err and leaves
\* every stored value unchanged; set of any other kind returns Ok, stores the
\* value and changes no other amount than Calories.
C16_CaloriesDerived ==
    /\ IsSome(me) => CaloriesDerived(Unwrap(me))
    /\ (ret.op = "MacroElements::set" /\ ret.key = "Calories")
          => (ret.value = "Err" /\ Unwrap(me) = ret.before)
    /\ (ret.op = "MacroElements::set" /\ ret.key # "Calories")
          => /\ ret.value = "Ok"
             /\ Unwrap(me)[ret.key] = ret.arg
             /\ \A k \in MacroElementsType \ {ret.key, "Calories"} :
                   Unwrap(me)[k] = ret.before[k]

\* a set of Fat that changed Calories, on a record whose amounts are numbers
C16_Witness ==
    /\ ret.op = "MacroElements::set" /\ ret.key = "Fat" /\ ret.value = "Ok"
    /\ ~Unwrap(me).Calories.nan /\ ~ret.before.Calories.nan
    /\ Unwrap(me).Calories.v > ret.before.Calories.v
    /\ Unwrap(me).Carbs.v > 0

---------------------------------------------------------------------------
(* Claims about Product::new *)

C15_TableKeptAsPassed ==
    ret.op = "Product::new" =>
        ret.value.allowed_units =
            IF DOMAIN ret.allowed_units = {}
            THEN MapInsert(EmptyMap, "Gram", UnitData(1, 1))
            ELSE ret.allowed_units

---------------------------------------------------------------------------
(* Claims about the swapper *)

\* the target nutrient per 100 g of the call's input and output product
SwapIn == Unwrap(get_nutrient_amount(ret.input, ret.nutrient)).v

SwapOut == Unwrap(get_nutrient_amount(ret.output, ret.nutrient)).v

\* C11: whenever get_grams_of_swapped_product returns Ok((low, high)),
\* high = low + 1 and low <= amount x nutrient(input) / nutrient(output) <= high
\* (the two inequalities multiplied by nutrient(output), which is not negative).
C11_GramsBracket ==
    (ret.op = "get_grams_of_swapped_product" /\ ret.value.kind = "Ok") =>
        /\ ret.value.high = ret.value.low + 1
        /\ ret.value.low * SwapOut <= ret.amount.v * SwapIn
        /\ ret.amount.v * SwapIn <= ret.value.high * SwapOut

\* C12: whenever get_amount_of_swapped_product returns Ok((low, high)) for the
\* unit {amount, divider}, both denominators are divider, low.numerator is
\* floor(equivalent grams x divider / amount) and high.numerator is one more.
C12_UnitBracket ==
    (ret.op = "get_amount_of_swapped_product" /\ ret.value.kind = "Ok") =>
        LET unit == ret.input.allowed_units[ret.unit]
        IN /\ ret.value.low.denominator = unit.divider
           /\ ret.value.high.denominator = unit.divider
           /\ ret.value.high.numerator = ret.value.low.numerator + 1
           /\ SwapOut > 0 =>
                 ret.value.low.numerator =
                    (ret.amount.v * SwapIn * unit.divider) \div (SwapOut * unit.amount)

\* both brackets are as C11 and C12 say whenever the equivalent amount exists
\* and its unit count is below 65535
SwapBracketWithinU16 ==
    (/\ ret.op \in {"get_amount_of_swapped_product", "get_grams_of_swapped_product"}
     /\ ret.value.kind \in {"Ok", "Panic"}
     /\ SwapOut > 0
     /\ LET unit == ret.input.allowed_units[ret.unit]
        IN (ret.amount.v * SwapIn * unit.divider) \div (SwapOut * unit.amount) < U16_MAX)
        => /\ ret.value.kind = "Ok"
           /\ ret.op = "get_grams_of_swapped_product" =>
                 /\ ret.value.high = ret.value.low + 1
                 /\ ret.value.low * SwapOut <= ret.amount.v * SwapIn
                 /\ ret.amount.v * SwapIn <= ret.value.high * SwapOut
           /\ ret.op = "get_amount_of_swapped_product" =>
                 LET unit == ret.input.allowed_units[ret.unit]
                 IN /\ ret.value.low.numerator =
                          (ret.amount.v * SwapIn * unit.divider) \div (SwapOut * unit.amount)
                    /\ ret.value.high.numerator = ret.value.low.numerator + 1

\* the messages a swap call may fail with: each names the product and the
\* nutrient or unit that is missing
SwapMessages(unit) ==
    {<<"Input product", Product_id(ret.input), "does not have nutrient", ret.nutrient>> :
        x \in {y \in {1} : get_nutrient_amount(ret.input, ret.nutrient) = None}}
    \cup
    {<<"Output product", Product_id(ret.output), "does not have nutrient", ret.nutrient>> :
        x \in {y \in {1} : get_nutrient_amount(ret.output, ret.nutrient) = None}}
    \cup
    {<<"Input product", Product_id(ret.input), "does not have allowed unit", unit>> :
        x \in {y \in {1} : unit \notin DOMAIN ret.input.allowed_units}}

\* C13: get_amount_of_swapped_product returns Err, and no bracket, exactly when
\* the input product lacks the target nutrient, the output product lacks it, or
\* the input product's table lacks the requested unit, and the message names
\* that product and the missing nutrient or unit; get_grams_of_swapped_product
\* returns the same errors, for the Gram unit.
C13_SwapErrors ==
    ret.op \in {"get_amount_of_swapped_product", "get_grams_of_swapped_product"} =>
        /\ ret.value.kind = "Err" <=> SwapMessages(ret.unit) # {}
        /\ ret.value.kind = "Err" =>
              /\ DOMAIN ret.value = {"kind", "msg"}
              /\ ret.value.msg \in SwapMessages(ret.unit)

\* the grams function failed on an output product, with a brand, that lacks
\* the nutrient
C13_Witness ==
    /\ ret.op = "get_grams_of_swapped_product"
    /\ ret.value.kind = "Err"
    /\ ret.value.msg = <<"Output product", <<"Milk", "Farm">>, "does not have nutrient", "Fiber">>

\* the amount function failed on a unit the input product does not have
C13_WitnessUnit ==
    /\ ret.op = "get_amount_of_swapped_product"
    /\ ret.value.kind = "Err"
    /\ ret.value.msg = <<"Input product", <<"Olive">>, "does not have allowed unit", "Cup">>

---------------------------------------------------------------------------
(* Claims about the variables of a product constraint and their read-back *)

\* every product entry of the returned week
WeekProducts ==
    UNION {UNION {Range(m.entries) : m \in Range(d.entries)} : d \in Range(result.solution.entries)}

\* the conversion rule of the unit a product entry was asked in
UnitOf(p) == p.product.allowed_units[p.unit]

\* C17: in every Solution solve_day returns, each product entry's unit count
\* (the Fraction's numerator) is an integer in 0..65535 and its amount_grams is
\* numerator x (amount x divider) of the requested unit.
C17_GramsAreUnitMultiples ==
    result.kind = "Ok" =>
        \A p \in WeekProducts :
            /\ p.amount_unit.numerator \in 0..U16_MAX
            /\ p.amount_grams = p.amount_unit.numerator * (UnitOf(p).amount * UnitOf(p).divider)

\* one cup of 25 g with divider 2 was solved as 50 g
C17_Witness ==
    /\ result.kind = "Ok"
    /\ \E p \in WeekProducts :
          /\ p.unit = "Cup" /\ UnitOf(p) = UnitData(25, 2)
          /\ p.amount_unit.numerator = 1
          /\ p.amount_grams = 50

\* the grams a Fraction displays, (numerator / denominator) x amount, are the
\* solved grams (compared after multiplying by the denominator)
DisplayAgrees(p) ==
    p.amount_unit.numerator * UnitOf(p).amount = p.amount_grams * p.amount_unit.denominator

DayPairs(d) ==
    UNION {{<<m.entries[k], history[d].day.meals[m.name].products[k]>> : k \in 1..Len(m.entries)} :
              m \in Range(result.solution.entries[d].entries)}

\* C19: in every Solution solve_day returns, each product's amount_grams lies
\* in [low_bound or 0, up_bound or 65535], the bounds of its ProductConstraint
\* read as grams whatever unit the constraint asks for.
C19_GramsWithinBounds ==
    result.kind = "Ok" =>
        \A d \in 1..Len(history) : \A pair \in DayPairs(d) :
            /\ pair[1].amount_grams >= UnwrapOr(pair[2].low_bound, 0)
            /\ pair[1].amount_grams <= UnwrapOr(pair[2].up_bound, U16_MAX)

\* a Cup constraint with up_bound 200 solved at 200 g (4 cups of 50 g, not 200 cups)
C19_Witness ==
    /\ result.kind = "Ok"
    /\ \E pair \in DayPairs(Len(history)) :
          /\ pair[2].unit = "Cup"
          /\ pair[2].up_bound = Some(200)
          /\ pair[1].amount_grams = 200

---------------------------------------------------------------------------
(* Claims about the compiled problem *)

\* the leaves of the d-th day the solver holds
DayLeaves(d) == get_all_product_variables(solver.variables.inner[d])

\* the grams variables of a list of leaves
GramVars(leaves) == {l.variable_gram : l \in Range(leaves)}

\* the rows a nutrient constraint must have produced over the given leaves:
\* a ">=" row, and a "<=" row when max is present, with these variables only
HasRowsOver(constr, leaves) ==
    /\ \E c \in Range(solver.problem.cons) :
          /\ c.op = "Ge" /\ c.rhs = 100 * UnwrapOr(constr.min, F(0)).v
          /\ VarsOf(c) = GramVars(leaves) /\ Len(c.terms) = Len(leaves)
    /\ IsSome(constr.max) =>
          \E c \in Range(solver.problem.cons) :
              /\ c.op = "Le" /\ c.rhs = 100 * Unwrap(constr.max).v
              /\ VarsOf(c) = GramVars(leaves) /\ Len(c.terms) = Len(leaves)

\* the number of rows a list of nutrient constraints produces
RECURSIVE RowCount(_, _)
RowCount(nutrients, i) ==
    IF i > Len(nutrients) THEN 0
    ELSE (IF IsSome(nutrients[i].max) THEN 2 ELSE 1) + RowCount(nutrients, i + 1)

RECURSIVE DayRowCount(_, _)
DayRowCount(day, names) ==
    IF names = {} THEN RowCount(day.nutrients, 1)
    ELSE LET m == CHOOSE x \in names : TRUE
         IN RowCount(day.meals[m].nutrients, 1) + DayRowCount(day, names \ {m})

RECURSIVE HistoryRowCount(_)
HistoryRowCount(d) ==
    IF d = 0 THEN 0
    ELSE DayRowCount(history[d].day, DOMAIN history[d].day.meals) + HistoryRowCount(d - 1)

RECURSIVE HistoryOccurrences(_)
HistoryOccurrences(d) ==
    IF d = 0 THEN 0 ELSE Cardinality(Occurrences(history[d].day)) + HistoryOccurrences(d - 1)

\* C20: compilation allocates exactly one (grams, unit-count) pair per
\* ProductConstraint occurrence, the same product in two meals getting two
\* pairs; a meal's nutrient constraint sums over exactly the leaves of its own
\* meal, and a day's nutrient constraint over every leaf of every meal of the day.
C20_PairPerOccurrence ==
    Called =>
        LET leaves == AllProductVariables(solver.variables.inner, 1)
        IN /\ Len(leaves) = HistoryOccurrences(Len(history))
           /\ Len(solver.problem.vars) = 2 * Len(leaves)
           /\ Cardinality(GramVars(leaves) \cup {l.variable_unit_divided : l \in Range(leaves)})
                 = 2 * Len(leaves)
           /\ \A l \in Range(leaves) :
                 ~solver.problem.vars[l.variable_gram].integer
                 /\ solver.problem.vars[l.variable_unit_divided].integer
           /\ Cardinality({i \in 1..Len(solver.problem.cons) : solver.problem.cons[i].op # "Eq"})
                 = HistoryRowCount(Len(history))
           /\ \A d \in 1..Len(history) :
                 /\ \A m \in Range(solver.variables.inner[d].inner) :
                       /\ Len(m.inner) = Len(history[d].day.meals[m.name].products)
                       /\ \A constr \in Range(history[d].day.meals[m.name].nutrients) :
                             HasRowsOver(constr, m.inner)
                 /\ \A constr \in Range(history[d].day.nutrients) :
                       HasRowsOver(constr, DayLeaves(d))

\* the same product in two meals of one day was solved to two different amounts
C20_Witness ==
    /\ result.kind = "Ok"
    /\ LastCall.day = SharedProductDay
    /\ LET day == result.solution.entries[Len(history)]
       IN /\ day.entries[1].entries[1].product = day.entries[2].entries[1].product
          /\ day.entries[1].entries[1].amount_grams # day.entries[2].entries[1].amount_grams

---------------------------------------------------------------------------
(* Claims about absent micro-nutrients *)

\* a product with every absent micro-nutrient set to 0.0
ZeroFilledProduct(p) ==
    [p EXCEPT !.micro_nutrients =
        [k \in DOMAIN p.micro_nutrients |->
            IF p.micro_nutrients[k] = None THEN Some(F(0)) ELSE p.micro_nutrients[k]]]

\* a day constraint with every product so filled
ZeroFilled(day) ==
    [day EXCEPT !.meals =
        [m \in DOMAIN day.meals |->
            [day.meals[m] EXCEPT !.products =
                [k \in 1..Len(day.meals[m].products) |->
                    [day.meals[m].products[k] EXCEPT
                        !.food = ZeroFilledProduct(day.meals[m].products[k].food)]]]]]

\* the solver after the calls of history made with zero-filled products
RECURSIVE ReplayZeroFilled(_, _)
ReplayZeroFilled(self, d) ==
    IF d > Len(history) THEN self
    ELSE ReplayZeroFilled(create_constraints(self, ZeroFilled(history[d].day), history[d].order),
                          d + 1)

\* what a result says apart from the product records: the error message, or
\* the names, grams and unit counts of the week
Signature(r) ==
    IF r.kind = "Ok"
    THEN [kind |-> "Ok",
          days |-> [d \in 1..Len(r.solution.entries) |->
            [m \in 1..Len(r.solution.entries[d].entries) |->
                <<r.solution.entries[d].entries[m].name,
                  [k \in 1..Len(r.solution.entries[d].entries[m].entries) |->
                      <<r.solution.entries[d].entries[m].entries[k].amount_grams,
                        r.solution.entries[d].entries[m].entries[k].amount_unit>>]>>]]]
    ELSE [kind |-> "Err", msg |-> r.msg]

\* C21: a product on which a micro-nutrient is absent contributes 0 to every
\* nutrient sum for it and 0 to the objective when it is the target, and its
\* absence never makes solve_day fail: the objective coefficient of its grams
\* is 0, and solve_day returns what it returns with the amount present as 0.0.
C21_AbsentCountsAsZero ==
    Called =>
        /\ \A l \in Range(AllProductVariables(solver.variables.inner, 1)) :
              solver.problem.vars[l.variable_gram].obj =
                 (IF get_nutrient_amount(l.product, solver.nutrient_to_optimize) = None
                  THEN 0
                  ELSE Unwrap(get_nutrient_amount(l.product, solver.nutrient_to_optimize)).v)
        /\ Signature(result) \in
              {Signature(r) : r \in solve_day_results(
                  ReplayZeroFilled(
                      ConstraintsSolver_new(
                          IF solver.problem.direction = "Minimize" THEN "Min" ELSE "Max",
                          solver.nutrient_to_optimize), 1))}

\* solved with a bound on a nutrient the product lacks (Alcohol <= 0) while
\* optimising a nutrient another solved product lacks (Fiber on the rice)
C21_Witness ==
    /\ result.kind = "Ok"
    /\ solver.nutrient_to_optimize = "Fiber"
    /\ \E d \in 1..Len(history) : history[d].day = FeasibleDay
    /\ \E p \in WeekProducts :
          get_nutrient_amount(p.product, "Alcohol") = None /\ p.amount_grams > 0
    /\ \E p \in WeekProducts :
          get_nutrient_amount(p.product, "Fiber") = None /\ p.amount_grams > 0

---------------------------------------------------------------------------
(* Claims about the rows of a nutrient constraint *)

\* the nutrient constraints of a day, of its meals and of the day itself
RECURSIVE DayNutrients(_, _)
DayNutrients(day, names) ==
    IF names = {} THEN day.nutrients
    ELSE LET m == CHOOSE x \in names : TRUE
         IN day.meals[m].nutrients \o DayNutrients(day, names \ {m})

\* the nutrient constraints of every day compiled so far
RECURSIVE HistoryNutrients(_)
HistoryNutrients(d) ==
    IF d = 0 THEN <<>>
    ELSE HistoryNutrients(d - 1) \o DayNutrients(history[d].day, DOMAIN history[d].day.meals)

RowsWith(op) == {i \in 1..Len(solver.problem.cons) : solver.problem.cons[i].op = op}

\* C22 as stated: a ">=" row is added only for a present min and a "<=" row
\* only for a present max, so that a constraint with neither adds no row.
C22_RowsOnlyForPresentBounds ==
    Called =>
        LET all == HistoryNutrients(Len(history))
        IN /\ Cardinality(RowsWith("Ge")) = Cardinality({i \in 1..Len(all) : IsSome(all[i].min)})
           /\ Cardinality(RowsWith("Le")) = Cardinality({i \in 1..Len(all) : IsSome(all[i].max)})

\* C22 amended: every NutrientConstraint adds a ">=" row, with an absent min
\* taken as 0.0, and a "<=" row only if max is present; a constraint with min
\* absent adds "total >= 0" and one with neither bound adds that row alone.
C22_MinRowAlways ==
    Called =>
        LET all == HistoryNutrients(Len(history))
        IN /\ Cardinality(RowsWith("Ge")) = Len(all)
           /\ Cardinality(RowsWith("Le")) = Cardinality({i \in 1..Len(all) : IsSome(all[i].max)})
           /\ Cardinality({i \in RowsWith("Ge") : solver.problem.cons[i].rhs = 0})
                 >= Cardinality({i \in 1..Len(all) : all[i].min = None})
           /\ \A d \in 1..Len(history) :
                 /\ \A m \in Range(solver.variables.inner[d].inner) :
                       \A constr \in Range(history[d].day.meals[m.name].nutrients) :
                           constr.min = None => HasRowsOver(constr, m.inner)
                 /\ \A constr \in Range(history[d].day.nutrients) :
                       constr.min = None => HasRowsOver(constr, DayLeaves(d))

\* a day with a nutrient constraint that has neither bound was compiled and solved
C22_Witness ==
    /\ result.kind = "Ok"
    /\ Len(history) = 1
    /\ \E constr \in Range(HistoryNutrients(1)) : constr.min = None /\ constr.max = None
    /\ Cardinality(RowsWith("Ge")) = 5 /\ Cardinality(RowsWith("Le")) = 3

---------------------------------------------------------------------------
(* Claims about the order of the meals *)

\* the order in which a day plan's meals were inserted into its map: the
\* two-meal plans insert "Breakfast", then "Dinner"
DeclaredMeals(day) ==
    IF DOMAIN day.meals = {"Breakfast", "Dinner"}
    THEN <<"Breakfast", "Dinner">>
    ELSE <<CHOOSE m \in DOMAIN day.meals : TRUE>>

\* C23: the Meal entries of the returned Day appear in the order in which the
\* meals were declared in the day constraint, for every day constraint with
\* two or more meals.
C23_MealsInDeclaredOrder ==
    (result.kind = "Ok" /\ Cardinality(DOMAIN LastCall.day.meals) >= 2) =>
        LET day == result.solution.entries[Len(history)]
        IN [k \in 1..Len(day.entries) |-> day.entries[k].name] = DeclaredMeals(LastCall.day)

---------------------------------------------------------------------------
(* Claims about optimality *)

\* the unit counts a satisfy every nutrient inequality of the day plan (the
\* product bounds and the equalities hold of every member of PlanAssignments)
PlanHolds(day, a) ==
    /\ \A m \in DOMAIN day.meals : \A constr \in Range(day.meals[m].nutrients) :
          Within(PlanTotal100(day, a, {o \in Occurrences(day) : o[1] = m}, constr.element),
                 constr)
    /\ \A constr \in Range(day.nutrients) :
          Within(PlanTotal100(day, a, Occurrences(day), constr.element), constr)

\* C24: a successful solve_day returns an optimal assignment for the solver's
\* direction and target nutrient: under Min (Max) no assignment satisfying all
\* bounds, equalities and nutrient inequalities has a strictly smaller (larger)
\* sum of grams x target per 100 g; and the one-product example (40 protein,
\* bounds [0, 200] g in grams, meal Protein in [20, 100], day Protein in
\* [15, 120], minimising Protein) is solved as 50 g with Fraction {50, 1}.
C24_SolutionOptimal ==
    result.kind = "Ok" =>
        /\ \A d \in 1..Len(history) :
              LET day == history[d].day
                  target == solver.nutrient_to_optimize
                  solved == Total100(DayProducts(result.solution.entries[d].entries, 1), target, 1)
              IN \A a \in PlanAssignments(day, Occurrences(day)) :
                    PlanHolds(day, a) =>
                        IF solver.problem.direction = "Minimize"
                        THEN PlanTotal100(day, a, Occurrences(day), target) >= solved
                        ELSE PlanTotal100(day, a, Occurrences(day), target) <= solved
        /\ (/\ history[1].day = GramDay
            /\ solver.problem.direction = "Minimize"
            /\ solver.nutrient_to_optimize = "Protein")
              => /\ result.solution.entries[1].entries[1].entries[1].amount_grams = 50
                 /\ result.solution.entries[1].entries[1].entries[1].amount_unit = Fraction(50, 1)

\* the example was solved, and in the same week a day whose optimum is not at
\* a bound of its products (two meals, bounds on meals and day)
C24_Witness ==
    /\ result.kind = "Ok"
    /\ Len(history) = 2
    /\ history[1].day = GramDay /\ history[2].day = TwoMealDay
    /\ solver.problem.direction = "Minimize" /\ solver.nutrient_to_optimize = "Protein"
    /\ result.solution.entries[1].entries[1].entries[1].amount_grams = 50

---------------------------------------------------------------------------
(* Claims about what a solver accumulates *)

IsPrefix(a, b) == Len(a) <= Len(b) /\ SubSeq(b, 1, Len(a)) = a

\* C26: solve_day only ever adds variables, constraints and containers to its
\* solver and never removes any, also when it returns an error; so once a call
\* has returned "Constraints are infeasible", every later call on the same
\* solver returns it too, whatever day constraint is passed.
C26_OnlyAddsAndStaysInfeasible ==
    [][/\ IsPrefix(solver.problem.vars, solver'.problem.vars)
       /\ IsPrefix(solver.problem.cons, solver'.problem.cons)
       /\ IsPrefix(solver.variables.inner, solver'.variables.inner)
       /\ Len(solver'.variables.inner) = Len(solver.variables.inner) + 1
       /\ result = ErrInfeasible => result' = ErrInfeasible]_vars

\* an infeasible day, then a day that a fresh solver solves, was answered
\* with the infeasible message
C26_Witness ==
    /\ Len(history) = 2
    /\ history[1].day = InfeasibleDay
    /\ history[2].day = TwoMealDay
    /\ result = ErrInfeasible
    /\ Len(solver.variables.inner) = 2

---------------------------------------------------------------------------
(* Claims about the bounds of the variables *)

\* the leaves of compiled day d paired with their product constraints
LeafPairs(d) ==
    UNION {{<<m.inner[k], history[d].day.meals[m.name].products[k]>> : k \in 1..Len(m.inner)} :
              m \in Range(solver.variables.inner[d].inner)}

\* C27: every variable compiled from a day constraint has finite bounds, grams
\* in [low or 0, high or 65535] and unit count in [0, 65535], so a problem
\* built only through solve_day is never reported unbounded: solve_day returns
\* Ok or "Constraints are infeasible", under Min and under Max.
C27_NeverUnbounded ==
    Called =>
        /\ \A d \in 1..Len(history) : \A pair \in LeafPairs(d) :
              LET grams == solver.problem.vars[pair[1].variable_gram]
                  count == solver.problem.vars[pair[1].variable_unit_divided]
              IN /\ grams.min = UnwrapOr(pair[2].low_bound, 0)
                 /\ grams.max = Some(UnwrapOr(pair[2].up_bound, U16_MAX))
                 /\ count.min = 0 /\ count.max = Some(U16_MAX)
        /\ \A i \in 1..Len(solver.problem.vars) : IsSome(solver.problem.vars[i].max)
        /\ result.kind = "Ok" \/ result = ErrInfeasible

\* maximising over a product constraint without bounds stopped at the largest
\* multiple of the unit below 65535 g
C27_Witness ==
    /\ result.kind = "Ok"
    /\ solver.problem.direction = "Maximize"
    /\ solver.nutrient_to_optimize = "Protein"
    /\ \E pair \in DayPairs(Len(history)) :
          /\ pair[2].low_bound = None /\ pair[2].up_bound = None
          /\ pair[1].amount_grams = 60000

---------------------------------------------------------------------------
(* Claims about the swapper's 16-bit numerators and its unit lookup *)

\* C28: get_amount_of_swapped_product never overflows its 16-bit numerators:
\* for every input that passes its three checks, including an output nutrient
\* of 0 and an equivalent of 65535 unit steps or more, it returns Ok with
\* low.numerator <= 65534 and high.numerator = low.numerator + 1, without
\* wrapping and without a panic.
C28_NoOverflow ==
    (ret.op = "get_amount_of_swapped_product" /\ SwapMessages(ret.unit) = {}) =>
        /\ ret.value.kind = "Ok"
        /\ ret.value.low.numerator <= U16_MAX - 1
        /\ ret.value.high.numerator = ret.value.low.numerator + 1

\* C29: get_amount_of_swapped_product looks the requested unit up only in the
\* input product's table: when both products have the nutrient and the input
\* has the unit the call does not fail, whether or not the output has the
\* unit, and the fractions are those of the input's {amount, divider} (both
\* denominators its divider, the numerator its count of steps).
C29_UnitFromInputOnly ==
    (/\ ret.op = "get_amount_of_swapped_product"
     /\ get_nutrient_amount(ret.input, ret.nutrient) # None
     /\ get_nutrient_amount(ret.output, ret.nutrient) # None
     /\ ret.unit \in DOMAIN ret.input.allowed_units) =>
        /\ ret.value.kind # "Err"
        /\ ret.value.kind = "Ok" =>
              LET unit == ret.input.allowed_units[ret.unit]
                  steps == (ret.amount.v * SwapIn * unit.divider) \div (SwapOut * unit.amount)
              IN /\ ret.value.low.denominator = unit.divider
                 /\ ret.value.high.denominator = unit.divider
                 /\ (SwapOut > 0 /\ steps < U16_MAX) => ret.value.low.numerator = steps

\* 1000 g of Skim (Cup of 125 g) swapped for Milk (Cup of 250 g) by fat gave
\* 2 cups of 125 g, not 1 of 250 g
C29_Witness ==
    /\ ret.op = "get_amount_of_swapped_product"
    /\ ret.input = Skim /\ ret.output = MilkProduct
    /\ ret.unit = "Cup" /\ ret.nutrient = "Fat" /\ ret.amount = F(1000)
    /\ ret.value.kind = "Ok"
    /\ ret.value.low = Fraction(2, 1)
    /\ ret.value.high = Fraction(3, 1)

\* 55 g of Olive in boxes swapped for Skim, which has no Box unit
C29_WitnessNoUnit ==
    /\ ret.op = "get_amount_of_swapped_product"
    /\ ret.input = Olive /\ ret.output = Skim
    /\ ret.unit = "Box" /\ "Box" \notin DOMAIN Skim.allowed_units
    /\ ret.value.kind = "Ok"
    /\ ret.value.low = Fraction(40, 2)

---------------------------------------------------------------------------
(* A caller of the product database *)

Ap == <<"A", "p">>

App == <<"A", "p", "p">>

\* the products stored: two names, one a prefix of the other, each with and
\* without a brand
DbProducts == {make_product(name, brand) : name \in {Ap, App}, brand \in {None, Some(<<"B">>)}}

\* the ids asked for: those of the products, a proper prefix of them all, and
\* one that differs in case only
DbQueries == {id_text(product) : product \in DbProducts} \cup {<<"A">>, <<"a", "p">>}

\* add_product(product.id(), product): refused when the id is already stored
AddProduct(product) ==
    /\ id_text(product) \notin DOMAIN db.products
    /\ db' = [db EXCEPT !.products = MapInsert(@, id_text(product), product)]
    /\ UNCHANGED <<pc, nc, ret, solver, result, history, me, worker>>

\* Database::get_product_by_id(product_id)
GetProductById(product_id) ==
    /\ ret' = [op |-> "get_product_by_id", kind |-> db.kind, products |-> db.products,
               product_id |-> product_id, value |-> get_product_by_id(db, product_id)]
    /\ UNCHANGED <<pc, nc, solver, result, history, me, db, worker>>

\* an empty database of one of the implementations
InitDatabase ==
    /\ pc = None
    /\ nc = None
    /\ ret = [op |-> "none"]
    /\ solver = NoSolver
    /\ result = NoResult
    /\ history = <<>>
    /\ me = None
    /\ \E kind \in DatabaseKinds : db = [kind |-> kind, products |-> EmptyMap]
    /\ worker = Worker_new

NextDatabase ==
    \/ \E product \in DbProducts : AddProduct(product)
    \/ \E product_id \in DbQueries : GetProductById(product_id)

SpecDatabase == InitDatabase /\ [][NextDatabase]_vars

---------------------------------------------------------------------------
(* Callers of send_raw on one DbWorkerHandle, and its worker.  The worker    *)
(* answers the requests in the order they were posted, each with one         *)
(* response after any number of Debug and non-string packets; it raises no   *)
(* error event, and posting a string to it does not fail.                    *)

\* send_raw for call c: installs the call's handlers in the worker's single
\* onmessage and onerror slots, replacing what was there, and posts the request
SendRaw(c) ==
    /\ worker.promise[c].state = "NotStarted"
    /\ \A b \in Calls : b < c => worker.promise[b].state # "NotStarted"
    /\ worker' = [worker EXCEPT !.onmessage = Some(c), !.onerror = Some(c),
                                !.inbox = Append(@, c),
                                !.promise[c] = [state |-> "Pending"]]
    /\ UNCHANGED <<pc, nc, ret, solver, result, history, me, db>>

\* the worker posts a Debug packet while it works on a request
WorkerPostDebug ==
    /\ worker.inbox # <<>>
    /\ worker.chatter < MaxChatter
    /\ worker' = [worker EXCEPT !.outbox = Append(@, Message(TRUE, "Debug", Head(worker.inbox))),
                                !.chatter = @ + 1]
    /\ UNCHANGED <<pc, nc, ret, solver, result, history, me, db>>

\* the worker posts a packet that is not a string
WorkerPostObject ==
    /\ worker.inbox # <<>>
    /\ worker.chatter < MaxChatter
    /\ worker' = [worker EXCEPT !.outbox = Append(@, Message(FALSE, "Object", Head(worker.inbox))),
                                !.chatter = @ + 1]
    /\ UNCHANGED <<pc, nc, ret, solver, result, history, me, db>>

\* the worker posts the response to the oldest request
WorkerPostResponse ==
    /\ worker.inbox # <<>>
    /\ worker' = [worker EXCEPT !.outbox = Append(@, Message(TRUE, "Response", Head(worker.inbox))),
                                !.inbox = Tail(@)]
    /\ UNCHANGED <<pc, nc, ret, solver, result, history, me, db>>

\* the event loop dispatches the oldest message event to the installed
\* onmessage handler, if there is one
OnMessage ==
    /\ worker.outbox # <<>>
    /\ LET evt == Head(worker.outbox)
           w == [worker EXCEPT !.outbox = Tail(@)]
       IN worker' = IF IsSome(worker.onmessage)
                    THEN on_message(w, Unwrap(worker.onmessage), evt)
                    ELSE w
    /\ UNCHANGED <<pc, nc, ret, solver, result, history, me, db>>

NextWorker ==
    \/ \E c \in Calls : SendRaw(c)
    \/ WorkerPostDebug
    \/ WorkerPostObject
    \/ WorkerPostResponse
    \/ OnMessage

SpecWorker == InitConstraints /\ [][NextWorker]_vars

\* the worker answers every request and the event loop delivers every message
SpecWorkerFair ==
    /\ SpecWorker
    /\ WF_vars(WorkerPostResponse)
    /\ WF_vars(OnMessage)

---------------------------------------------------------------------------
(* Claims about the database lookup and the worker handle *)

\* C25: Database::get_product_by_id(id) returns the product stored under
\* exactly the key id whenever there is one, also for a branded product whose
\* id is "name (brand)", and None when no product has exactly that id, even if
\* other products match id as a prefix.
C25_ExactIdLookup ==
    ret.op = "get_product_by_id" =>
        ret.value = IF ret.product_id \in DOMAIN ret.products
                    THEN Some(ret.products[ret.product_id])
                    ELSE None

\* the lookup is exact in the implementations that compare the id
C25_ExactWhereIdCompared ==
    (ret.op = "get_product_by_id" /\ ret.kind # "LocalProductDb") =>
        ret.value = IF ret.product_id \in DOMAIN ret.products
                    THEN Some(ret.products[ret.product_id])
                    ELSE None

\* in the SQLite database it is exact for the products without a brand
C25_ExactForUnbranded ==
    (/\ ret.op = "get_product_by_id"
     /\ ret.kind = "LocalProductDb"
     /\ \A k \in DOMAIN ret.products : k = ret.product_id => ret.products[k].brand = None) =>
        ret.value = IF ret.product_id \in DOMAIN ret.products
                    THEN Some(ret.products[ret.product_id])
                    ELSE None

\* C30: on one DbWorkerHandle every send_raw call eventually resolves with the
\* first string message, not a Debug one, that the worker posts in answer to
\* that call's request, also when a second call starts before the first has
\* resolved: no call stays pending and none receives another call's response.
C30_EveryCallResolvesWithOwnResponse ==
    /\ [](\A c \in Calls :
            worker.promise[c].state = "Resolved" =>
                worker.promise[c].text = Message(TRUE, "Response", c))
    /\ \A c \in Calls :
          (worker.promise[c].state = "Pending") ~>
              (/\ worker.promise[c].state = "Resolved"
               /\ worker.promise[c].text = Message(TRUE, "Response", c))

\* some call was resolved with the response to another call's request
C30_ResolvedWithAnothersResponse ==
    \E c \in Calls :
        /\ worker.promise[c].state = "Resolved"
        /\ worker.promise[c].text.request # c

=============================================================================
